---- MODULE Spec2Model ----
(***************************************************************************)
(* Triangular arbitrage simulator: swap contract layer                     *)
(* (processorNewEngine.js) and cycle engine (triangularNewEngine.js).      *)
(*                                                                         *)
(* A decimal.js Decimal is modelled as an exact rational with a decimal    *)
(* exponent, n/d * 10^e, so that the unit conversions by 10^decimals       *)
(* (9 for WSOL, 6 for USDC) only move the exponent.  d = 0 stands for a    *)
(* non-finite Decimal (NaN).                                               *)
(***************************************************************************)
EXTENDS Integers, Sequences, FiniteSets, TLC

VARIABLES
    legIn,      \* simulateLeg: the call's arguments (pool, inputMint, outputMint, dxAtomic)
    legOut,     \* simulateLeg: what the call returned or threw
    pools,      \* findTriangularArbitrage: the pools argument, in the order supplied;
                \* loadPoolsFromJsonFile: the normalized pools it keeps
    opts,       \* findTriangularArbitrage: the other arguments
    triples,    \* findTriangularArbitrage: the triples the nested loops visit, in order
    next,       \* findTriangularArbitrage: index of the triple the loops are at
    results,    \* findTriangularArbitrage: the results / routes array
    status,     \* findTriangularArbitrage: "called", "running", "returned", "rejected";
                \* loadPoolsFromJsonFile: "called", "normalized", "skipped", "dropped", "loaded"
    rawPool,    \* normalizePool: the raw record
    normalized, \* normalizePool: the normalized pool
    poolFile,   \* loadAndEnrichPools: the records of the pool file
    sdkFallback, \* enrichPools: what opts.sdkFallback is
    loaded,     \* loadPoolsFromFile: the pools it returns
    enriched,   \* enrichPools: the pools pushed to out so far
    consulted,  \* enrichPool: per pool, the sources asked so far and what they gave
    ready,      \* loadAndEnrichPools: the pools it returns
    pc,         \* enrichPool: the step the current pool is at
    arbIn,      \* calculateArbitrage: the call's arguments (pool1, pool2, pool3, startAmount)
    arbRoute,   \* calculateArbitrage: swap1, swap2, swap3 as far as they are computed
    arbOut,     \* calculateArbitrage: the opportunity returned, or that it threw
    binIn,      \* calculateMultiBinSwap: the call's arguments
    binWalk,    \* calculateMultiBinSwap: sortedBins, the bin the loop is at and its totals
    binOut,     \* calculateMultiBinSwap: the SwapResult returned, or that it threw
    quoteArgs,  \* RaydiumCpmm: the amount, the reserves and the customFeeRate of the calls
    quoteOut,   \* RaydiumCpmm.calculateSwapOutput of the amount: the SwapResult, or that it threw
    quoteIn,    \* RaydiumCpmm.calculateSwapInput of the amount: the input, or that it threw
    quoteBack,  \* RaydiumCpmm.calculateSwapOutput of that input
    swapCall,   \* processSwap: the object the caller passes
    swapOut,    \* processSwap: the object returned, or that it threw
    search,     \* findOptimalAmount: the bounds, the round and the best opportunity so far
    rpc,        \* _getMultipleAccountsInfo: the attempts made and how the call ended
    manager     \* PoolManager: the pools processed and the stats

enrichVars == <<poolFile, sdkFallback, loaded, enriched, consulted, ready, pc>>

arbVars == <<arbIn, arbRoute, arbOut>>

dlmmVars == <<binIn, binWalk, binOut>>

cpmmVars == <<quoteArgs, quoteOut, quoteIn, quoteBack>>

swapVars == <<swapCall, swapOut>>

libVars == <<dlmmVars, cpmmVars, swapVars, search, rpc, manager>>

engineVars == <<legIn, legOut, pools, opts, triples, next, results, status, rawPool, normalized, enrichVars>>

vars == <<legIn, legOut, pools, opts, triples, next, results, status, rawPool, normalized, enrichVars, arbVars, libVars>>

----------------------------------------------------------------------------
(* Decimal arithmetic (decimal.js).  A value that is used more than once   *)
(* is handed on as an operator argument.                                   *)

Abs(i) == IF i < 0 THEN -i ELSE i

RECURSIVE Gcd(_, _)
Gcd(a, b) == IF b = 0 THEN a ELSE Gcd(b, a % b)

RECURSIVE Pow10Int(_)
Pow10Int(k) == IF k <= 0 THEN 1 ELSE 10 * Pow10Int(k - 1)

Reduced(n, d, e, g) ==
    IF d < 0 THEN [n |-> -(n \div g), d |-> -(d \div g), e |-> e]
    ELSE [n |-> n \div g, d |-> d \div g, e |-> e]

\* n/d * 10^e in lowest terms with d > 0
Dec(n, d, e) ==
    IF n = 0 THEN [n |-> 0, d |-> 1, e |-> 0]
    ELSE Reduced(n, d, e, Gcd(Abs(n), Abs(d)))

DInt(i) == [n |-> i, d |-> 1, e |-> 0]
Zero == [n |-> 0, d |-> 1, e |-> 0]
NaN == [n |-> 0, d |-> 0, e |-> 0]

isFinite(a) == a.d # 0

MulReduced(x, y, e) == Dec(x.n * y.n, x.d * y.d, e)

DMul(a, b) ==
    IF ~isFinite(a) \/ ~isFinite(b) THEN NaN
    ELSE MulReduced(Dec(a.n, b.d, 0), Dec(b.n, a.d, 0), a.e + b.e)

\* callers divide by a finite non-zero value only
DDiv(a, b) ==
    IF ~isFinite(a) \/ ~isFinite(b) \/ b.n = 0 THEN NaN
    ELSE DMul(a, [n |-> b.d, d |-> b.n, e |-> -b.e])

MinExp(a, b) == IF a.n = 0 THEN b.e ELSE IF b.n = 0 THEN a.e
                ELSE IF a.e < b.e THEN a.e ELSE b.e

\* a + b over the common denominator, at the exponent e <= a.e, b.e
AddAligned(a, b, e, g) ==
    Dec(a.n * Pow10Int(a.e - e) * (b.d \div g) + b.n * Pow10Int(b.e - e) * (a.d \div g),
        (a.d \div g) * b.d, e)

DAdd(a, b) ==
    IF ~isFinite(a) \/ ~isFinite(b) THEN NaN
    ELSE AddAligned(a, b, MinExp(a, b), Gcd(a.d, b.d))

DNeg(a) == [a EXCEPT !.n = -a.n]

DSub(a, b) == DAdd(a, DNeg(b))

\* comparedTo: the sign of a - b
DCmp(a, b) == DSub(a, b).n

DLt(a, b) == isFinite(a) /\ isFinite(b) /\ DCmp(a, b) < 0
DGt(a, b) == isFinite(a) /\ isFinite(b) /\ DCmp(a, b) > 0
DLe(a, b) == isFinite(a) /\ isFinite(b) /\ DCmp(a, b) <= 0
DGe(a, b) == isFinite(a) /\ isFinite(b) /\ DCmp(a, b) >= 0
DEq(a, b) == isFinite(a) /\ isFinite(b) /\ DCmp(a, b) = 0

\* Decimal.floor(): the largest integer not above a
FloorInt(a) ==
    IF a.e >= 0 THEN (a.n * Pow10Int(a.e)) \div a.d
    ELSE a.n \div (a.d * Pow10Int(-a.e))

DFloor(a) == IF ~isFinite(a) THEN NaN ELSE DInt(FloorInt(a))

DAbs(a) == [a EXCEPT !.n = Abs(a.n)]

DScale10(a, k) == IF ~isFinite(a) \/ a.n = 0 THEN a ELSE [a EXCEPT !.e = a.e + k]

----------------------------------------------------------------------------
(* JavaScript values that reach the math: a number or numeric string       *)
(* (k = "num"), NaN, a non-numeric string, null/undefined                  *)

JNum(a) == [k |-> "num", v |-> a]
JNaN == [k |-> "nan", v |-> Zero]
JText == [k |-> "text", v |-> Zero]
JNull == [k |-> "null", v |-> Zero]

----------------------------------------------------------------------------
(* processorNewEngine.js                                                   *)

toDecimal(v) ==
    IF v.k = "num" THEN v.v
    ELSE IF v.k = "nan" THEN NaN
    ELSE Zero

atomicToHuman(atomic, decimals) == DScale10(atomic, -decimals)

humanToAtomic(human, decimals) == DScale10(human, decimals)

isFinitePositive(a) == isFinite(a) /\ a.n > 0

FeeOf(f) ==
    IF ~isFinite(f) THEN Zero
    ELSE IF DLt(f, Zero) THEN Zero
    ELSE IF DGt(f, DInt(1)) THEN DDiv(f, DInt(100))
    ELSE f

normalizeFeeRate(feeRate) == FeeOf(toDecimal(feeRate))

NoSim ==
    [threw |-> TRUE, fee |-> Zero, dy |-> Zero, midPrice |-> Zero,
     executionPrice |-> Zero, executionPriceNoFee |-> Zero,
     priceImpactPct |-> Zero, feePaid |-> Zero]

CpmmImpact(midPrice, executionPriceNoFee) ==
    IF DGt(midPrice, Zero)
    THEN DMul(DAbs(DDiv(DSub(midPrice, executionPriceNoFee), midPrice)), DInt(100))
    ELSE Zero

CpmmPrices(dx, fee, dxAfterFee, dy, midPrice, executionPriceNoFee) ==
    [threw |-> FALSE, fee |-> fee, dy |-> dy, midPrice |-> midPrice,
     executionPrice |-> DDiv(dy, dx),
     executionPriceNoFee |-> executionPriceNoFee,
     priceImpactPct |-> CpmmImpact(midPrice, executionPriceNoFee),
     feePaid |-> DMul(dx, fee)]

CpmmOut(dx, fee, dxAfterFee, dy, midPrice) ==
    CpmmPrices(dx, fee, dxAfterFee, dy, midPrice, DDiv(dy, dxAfterFee))

CpmmAfterFee(x, y, dx, fee, dxAfterFee) ==
    IF ~isFinitePositive(dxAfterFee)
    THEN [NoSim EXCEPT !.threw = FALSE, !.fee = fee, !.midPrice = DDiv(y, x),
                       !.feePaid = DMul(dx, fee)]
    ELSE CpmmOut(dx, fee, dxAfterFee,
                 DDiv(DMul(y, dxAfterFee), DAdd(x, dxAfterFee)), DDiv(y, x))

CpmmWithFee(x, y, dx, fee) == CpmmAfterFee(x, y, dx, fee, DSub(dx, DMul(dx, fee)))

\* fee is the local constant of the kernel: the fraction the swap math applies
simulateCPMMHuman(x, y, dx, feeRate) ==
    IF ~isFinitePositive(x) \/ ~isFinitePositive(y) \/ ~isFinitePositive(dx)
    THEN NoSim
    ELSE CpmmWithFee(x, y, dx, normalizeFeeRate(JNum(feeRate)))

\* a ?? b
Coalesce(a, b) == IF a.k = "null" THEN b ELSE a

\* the pool types here are '', 'cpmm', 'dlmm', 'clmm' and 'whirlpool'
detectType(pool) ==
    IF pool.type \in {"clmm", "whirlpool"} THEN "clmm"
    ELSE IF pool.type = "dlmm" THEN "dlmm"
    ELSE "cpmm"

\* opts.feeRate ?? pool.fee ?? 0 (the pools of the engine carry no feeRate, feePct)
FeeArgument(pool, optsFeeRate) == Coalesce(optsFeeRate, Coalesce(pool.fee, JNum(Zero)))

NoSwap ==
    [threw |-> TRUE, fee |-> Zero, dxHuman |-> Zero, dy |-> Zero, feeRate |-> Zero,
     feePaid |-> Zero, midPrice |-> Zero, executionPrice |-> Zero,
     executionPriceNoFee |-> Zero, priceImpactPct |-> Zero,
     dyAtomic |-> Zero, dxAtomic |-> Zero, type |-> ""]

SwapResult(pool, dxA, feeRate, sim) ==
    IF sim.threw THEN NoSwap
    ELSE [threw |-> FALSE, fee |-> sim.fee,
          dxHuman |-> atomicToHuman(dxA, pool.baseDecimals), dy |-> sim.dy,
          feeRate |-> feeRate, feePaid |-> sim.feePaid, midPrice |-> sim.midPrice,
          executionPrice |-> sim.executionPrice,
          executionPriceNoFee |-> sim.executionPriceNoFee,
          priceImpactPct |-> sim.priceImpactPct,
          dyAtomic |-> DFloor(humanToAtomic(sim.dy, pool.quoteDecimals)),
          dxAtomic |-> DFloor(dxA), type |-> detectType(pool)]

SwapWithFee(pool, xResAtomic, yResAtomic, dxA, feeRate) ==
    IF ~isFinitePositive(xResAtomic) \/ ~isFinitePositive(yResAtomic) THEN NoSwap
    ELSE IF ~isFinitePositive(dxA) THEN NoSwap
    ELSE SwapResult(pool, dxA, feeRate,
             simulateCPMMHuman(atomicToHuman(xResAtomic, pool.baseDecimals),
                               atomicToHuman(yResAtomic, pool.quoteDecimals),
                               atomicToHuman(dxA, pool.baseDecimals), feeRate))

\* pool = { type, xReserve, yReserve, baseDecimals, quoteDecimals, fee }; the type
\* detected is only handed back: CLMM and DLMM pools take the same CPMM
\* approximation on their reserves
processSwap(pool, dxAtomic, optsFeeRate) ==
    SwapWithFee(pool, toDecimal(pool.xReserve), toDecimal(pool.yReserve),
                toDecimal(dxAtomic), normalizeFeeRate(FeeArgument(pool, optsFeeRate)))

NoCost ==
    [ok |-> FALSE, totalCostTokenOutHuman |-> Zero, totalCostTokenOutAtomic |-> Zero,
     feeCostOut |-> Zero, slippageCostOut |-> Zero]

CostRecord(quoteDecimals, feeCostOut, slippageCostOut, totalCostOut) ==
    [ok |-> TRUE, totalCostTokenOutHuman |-> totalCostOut,
     totalCostTokenOutAtomic |-> DFloor(humanToAtomic(totalCostOut, quoteDecimals)),
     feeCostOut |-> feeCostOut, slippageCostOut |-> slippageCostOut]

CostSum(quoteDecimals, feeCostOut, slippageCostOut) ==
    CostRecord(quoteDecimals, feeCostOut, slippageCostOut,
               DAdd(feeCostOut, slippageCostOut))

CostSlippage(quoteDecimals, feeCostOut, slip) ==
    CostSum(quoteDecimals, feeCostOut,
            IF ~isFinite(slip) \/ DLt(slip, Zero) THEN Zero ELSE slip)

\* CostAfterFee with the ideal output taken on the input before the fee
CostOnGrossInput(quoteDecimals, xHuman, yHuman, dxHuman, feeRate, midPrice, feePaidHuman, dxAfterFee) ==
    IF ~isFinitePositive(dxAfterFee)
    THEN CostRecord(quoteDecimals, DMul(feePaidHuman, midPrice), Zero,
                    DMul(feePaidHuman, midPrice))
    ELSE CostSlippage(quoteDecimals, DMul(feePaidHuman, midPrice),
             DSub(DMul(dxHuman, midPrice),
                  simulateCPMMHuman(xHuman, yHuman, dxHuman, feeRate).dy))

CostAfterFee(quoteDecimals, xHuman, yHuman, dxHuman, feeRate, midPrice, feePaidHuman, dxAfterFee) ==
    IF ~isFinitePositive(dxAfterFee)
    THEN CostRecord(quoteDecimals, DMul(feePaidHuman, midPrice), Zero,
                    DMul(feePaidHuman, midPrice))
    ELSE CostSlippage(quoteDecimals, DMul(feePaidHuman, midPrice),
             DSub(DMul(dxAfterFee, midPrice),
                  simulateCPMMHuman(xHuman, yHuman, dxHuman, feeRate).dy))

CostHuman(quoteDecimals, xHuman, yHuman, dxHuman, feeRate, feePaidHuman) ==
    CostAfterFee(quoteDecimals, xHuman, yHuman, dxHuman, feeRate, DDiv(yHuman, xHuman),
                 feePaidHuman, DSub(dxHuman, feePaidHuman))

CostWithFee(pool, xResAtomic, yResAtomic, dxA, feeRate) ==
    IF ~isFinitePositive(xResAtomic) \/ ~isFinitePositive(yResAtomic)
       \/ ~isFinitePositive(dxA)
    THEN NoCost
    ELSE CostHuman(pool.quoteDecimals,
                   atomicToHuman(xResAtomic, pool.baseDecimals),
                   atomicToHuman(yResAtomic, pool.quoteDecimals),
                   atomicToHuman(dxA, pool.baseDecimals), feeRate,
                   DMul(atomicToHuman(dxA, pool.baseDecimals), feeRate))

computeTotalCostTokenOut(pool, amountAtomic, optsFeeRate) ==
    CostWithFee(pool, toDecimal(pool.xReserve), toDecimal(pool.yReserve),
                toDecimal(amountAtomic), normalizeFeeRate(FeeArgument(pool, optsFeeRate)))

----------------------------------------------------------------------------
(* triangularNewEngine.js: leg simulation                                  *)

WSOL_MINT == "So11111111111111111111111111111111111111112"
USDC_MINT == "EPjFWdd5AufqSSqeM2qN1xzybapC8G4wEGGkZwyTDt1v"

floorAtomic(v) == IF ~isFinite(toDecimal(v)) THEN Zero ELSE DFloor(toDecimal(v))

NoOriented ==
    [isNull |-> TRUE, threw |-> FALSE, xReserve |-> JNull, yReserve |-> JNull,
     baseDecimals |-> 0, quoteDecimals |-> 0, fee |-> JNull, type |-> ""]

\* Oriented with the reserves and decimals left in x, y order in both directions
OrientedUnswapped(pool, xToY) ==
    [isNull |-> FALSE, threw |-> FALSE,
     xReserve |-> pool.xReserveAtomic, yReserve |-> pool.yReserveAtomic,
     baseDecimals |-> pool.xDecimals, quoteDecimals |-> pool.yDecimals,
     fee |-> pool.fee, type |-> pool.poolType]

\* xToY or yToX holds here
Oriented(pool, xToY) ==
    [isNull |-> FALSE, threw |-> FALSE,
     xReserve |-> IF xToY THEN pool.xReserveAtomic ELSE pool.yReserveAtomic,
     yReserve |-> IF xToY THEN pool.yReserveAtomic ELSE pool.xReserveAtomic,
     baseDecimals |-> IF xToY THEN pool.xDecimals ELSE pool.yDecimals,
     quoteDecimals |-> IF xToY THEN pool.yDecimals ELSE pool.xDecimals,
     fee |-> pool.fee, type |-> pool.poolType]

\* xReserve.toString() on a pool whose reserve is null is a TypeError; the string
\* of a Decimal parses back to the same Decimal
buildOrientedPoolForLeg(pool, inputMint, outputMint) ==
    IF ~(pool.mintX = inputMint \/ pool.mintY = inputMint)
       \/ ~(pool.mintX = outputMint \/ pool.mintY = outputMint)
    THEN NoOriented
    ELSE IF ~(pool.mintX = inputMint /\ pool.mintY = outputMint)
            /\ ~(pool.mintY = inputMint /\ pool.mintX = outputMint)
    THEN NoOriented
    ELSE IF pool.xReserveAtomic.k = "null" \/ pool.yReserveAtomic.k = "null"
    THEN [NoOriented EXCEPT !.isNull = FALSE, !.threw = TRUE]
    ELSE Oriented(pool, pool.mintX = inputMint /\ pool.mintY = outputMint)

NoLeg ==
    [ok |-> FALSE, threw |-> FALSE, reason |-> "", oriented |-> NoOriented,
     sim |-> NoSwap, dxAtomic |-> Zero, dyAtomic |-> Zero, cost |-> NoCost]

\* LegResult with the output rounded up instead of down
LegResultRoundedUp(oriented, dxAtomic, dxA, sim) ==
    IF sim.threw THEN [NoLeg EXCEPT !.threw = TRUE]
    ELSE [ok |-> TRUE, threw |-> FALSE, reason |-> "", oriented |-> oriented,
          sim |-> sim, dxAtomic |-> dxAtomic,
          dyAtomic |-> DNeg(DFloor(DNeg(humanToAtomic(sim.dy, oriented.quoteDecimals)))),
          cost |-> computeTotalCostTokenOut(oriented, JNum(dxA), oriented.fee)]

LegResult(oriented, dxAtomic, dxA, sim) ==
    IF sim.threw THEN [NoLeg EXCEPT !.threw = TRUE]
    ELSE [ok |-> TRUE, threw |-> FALSE, reason |-> "", oriented |-> oriented,
          sim |-> sim, dxAtomic |-> dxAtomic,
          dyAtomic |-> DFloor(humanToAtomic(sim.dy, oriented.quoteDecimals)),
          cost |-> computeTotalCostTokenOut(oriented, JNum(dxA), oriented.fee)]

LegOnOriented(oriented, dxAtomic, dxA) ==
    IF oriented.threw THEN [NoLeg EXCEPT !.threw = TRUE]
    ELSE IF oriented.isNull THEN [NoLeg EXCEPT !.reason = "pool not oriented for leg"]
    ELSE IF DLe(dxA, Zero) THEN [NoLeg EXCEPT !.reason = "dxAtomic <= 0"]
    ELSE LegResult(oriented, dxAtomic, dxA, processSwap(oriented, JNum(dxA), oriented.fee))

simulateLeg(pool, inputMint, outputMint, dxAtomic) ==
    LegOnOriented(buildOrientedPoolForLeg(pool, inputMint, outputMint), dxAtomic,
                  floorAtomic(JNum(dxAtomic)))

----------------------------------------------------------------------------
(* triangularNewEngine.js: sanity filter, pair index, triple enumeration   *)

tokenDecimalsByMint(mint, fallback) ==
    IF mint = WSOL_MINT THEN 9 ELSE IF mint = USDC_MINT THEN 6 ELSE fallback

\* a Decimal or null
NoPrice == [isNull |-> TRUE, v |-> Zero]
Price(v) == [isNull |-> FALSE, v |-> v]

PriceOfHuman(xH, yH) ==
    IF DLe(xH, Zero) \/ DLe(yH, Zero) THEN NoPrice ELSE Price(DDiv(yH, xH))

impliedPriceYperX(pool) ==
    IF pool.xReserveAtomic.k = "null" \/ pool.yReserveAtomic.k = "null" THEN NoPrice
    ELSE PriceOfHuman(DScale10(pool.xReserveAtomic.v, -pool.xDecimals),
                      DScale10(pool.yReserveAtomic.v, -pool.yDecimals))

isSolUsdcPair(p) ==
    \/ p.mintX = WSOL_MINT /\ p.mintY = USDC_MINT
    \/ p.mintX = USDC_MINT /\ p.mintY = WSOL_MINT

\* the implied price turned to USDC per SOL
usdcPerSol(p, priceYperX) ==
    IF p.mintX = WSOL_MINT THEN priceYperX ELSE DDiv(DInt(1), priceYperX)

RECURSIVE InsertAscending(_, _)
InsertAscending(a, v) ==
    IF a = <<>> THEN <<v>>
    ELSE IF DLt(v, Head(a)) THEN <<v>> \o a
    ELSE <<Head(a)>> \o InsertAscending(Tail(a), v)

RECURSIVE SortAscending(_)
SortAscending(a) ==
    IF a = <<>> THEN <<>> ELSE InsertAscending(SortAscending(Tail(a)), Head(a))

MedianOfSorted(a) ==
    IF Len(a) = 0 THEN NoPrice
    ELSE IF Len(a) % 2 = 1 THEN Price(a[(Len(a) \div 2) + 1])
    ELSE Price(DDiv(DAdd(a[Len(a) \div 2], a[(Len(a) \div 2) + 1]), DInt(2)))

\* the values go through toNumber(); the model keeps them exact
median(values) == MedianOfSorted(SortAscending(SelectSeq(values, isFinite)))

RECURSIVE SolUsdcPrices(_)
SolUsdcPrices(ps) ==
    IF ps = <<>> THEN <<>>
    ELSE (IF isSolUsdcPair(Head(ps)) /\ ~impliedPriceYperX(Head(ps)).isNull
             /\ isFinitePositive(usdcPerSol(Head(ps), impliedPriceYperX(Head(ps)).v))
          THEN <<usdcPerSol(Head(ps), impliedPriceYperX(Head(ps)).v)>>
          ELSE <<>>) \o SolUsdcPrices(Tail(ps))

computeSolUsdcMedianPrice(ps) == median(SolUsdcPrices(ps))

\* MispricedAt with the test against the lower end of the band left out
MispricedAboveOnly(price, solUsdcMedian, factor) ==
    IF ~isFinitePositive(price) THEN TRUE
    ELSE DGt(price, DMul(solUsdcMedian, factor))

MispricedAt(price, solUsdcMedian, factor) ==
    IF ~isFinitePositive(price) THEN TRUE
    ELSE DLt(price, DDiv(solUsdcMedian, factor)) \/ DGt(price, DMul(solUsdcMedian, factor))

isSolUsdcPoolMispriced(pool, solUsdcMedian, factor) ==
    IF solUsdcMedian.isNull THEN FALSE
    ELSE IF ~isSolUsdcPair(pool) THEN FALSE
    ELSE IF impliedPriceYperX(pool).isNull THEN TRUE
    ELSE MispricedAt(usdcPerSol(pool, impliedPriceYperX(pool).v), solUsdcMedian.v, factor)

eligible(ps, o) ==
    SelectSeq(ps, LAMBDA p : p.tvl >= o.minTvl /\ p.volume24h >= o.minVolume24h)

FilteredBy(elig, o, solUsdcMedian) ==
    IF o.filterMispricedSolUsdc /\ ~solUsdcMedian.isNull
    THEN SelectSeq(elig, LAMBDA p : ~isSolUsdcPoolMispriced(p, solUsdcMedian, DInt(2)))
    ELSE elig

poolsFiltered(ps, o) ==
    FilteredBy(eligible(ps, o), o, computeSolUsdcMedianPrice(eligible(ps, o)))

\* poolsByPairKey.get(m1|m2): addPair files every pool under both orders of its mints
RECURSIVE poolsByPairKey(_, _, _)
poolsByPairKey(ps, m1, m2) ==
    IF ps = <<>> THEN <<>>
    ELSE (IF Head(ps).mintX = m1 /\ Head(ps).mintY = m2 THEN <<Head(ps)>> ELSE <<>>)
         \o (IF Head(ps).mintY = m1 /\ Head(ps).mintX = m2 THEN <<Head(ps)>> ELSE <<>>)
         \o poolsByPairKey(Tail(ps), m1, m2)

\* Set.add: a Set keeps its members in the order they were first added
SetAdd(members, m) ==
    IF \E i \in 1..Len(members) : members[i] = m THEN members ELSE Append(members, m)

RECURSIVE tokensConnectedTo(_, _, _)
tokensConnectedTo(ps, T, members) ==
    IF ps = <<>> THEN members
    ELSE tokensConnectedTo(Tail(ps), T,
             IF Head(ps).mintX = T /\ Head(ps).mintY = T
             THEN SetAdd(members, T)
             ELSE IF Head(ps).mintX = T THEN SetAdd(members, Head(ps).mintY)
             ELSE IF Head(ps).mintY = T THEN SetAdd(members, Head(ps).mintX)
             ELSE members)

CandidatesOf(connectedToA, connectedToC, A, C) ==
    SelectSeq(connectedToA,
              LAMBDA t : (\E i \in 1..Len(connectedToC) : connectedToC[i] = t)
                         /\ t # A /\ t # C)

candidateB(ps, A, C) ==
    CandidatesOf(tokensConnectedTo(ps, A, <<>>), tokensConnectedTo(ps, C, <<>>), A, C)

\* arr.slice(0, n)
Slice(arr, n) == SubSeq(arr, 1, IF Len(arr) < n THEN Len(arr) ELSE n)

\* the nested loops over pAB, pBC, pCA, innermost last
TriplesOfLegs(B, poolsAB, poolsBC, poolsCA) ==
    [i \in 1..(Len(poolsAB) * Len(poolsBC) * Len(poolsCA)) |->
        [B |-> B,
         pAB |-> poolsAB[((i - 1) \div (Len(poolsBC) * Len(poolsCA))) + 1],
         pBC |-> poolsBC[(((i - 1) \div Len(poolsCA)) % Len(poolsBC)) + 1],
         pCA |-> poolsCA[((i - 1) % Len(poolsCA)) + 1]]]

TriplesOfB(ps, A, C, B, K) ==
    TriplesOfLegs(B, Slice(poolsByPairKey(ps, A, B), K), Slice(poolsByPairKey(ps, B, C), K),
                  Slice(poolsByPairKey(ps, C, A), K))

RECURSIVE TriplesOfCandidates(_, _, _, _, _)
TriplesOfCandidates(ps, A, C, candidates, K) ==
    IF candidates = <<>> THEN <<>>
    ELSE TriplesOfB(ps, A, C, Head(candidates), K)
         \o TriplesOfCandidates(ps, A, C, Tail(candidates), K)

TriplesOfFiltered(ps, o) ==
    TriplesOfCandidates(ps, o.tokenA, o.tokenC, candidateB(ps, o.tokenA, o.tokenC),
                        o.maxPoolsPerLeg)

\* every (B, pAB, pBC, pCA) the search visits, in the order it visits them
Triples(ps, o) == TriplesOfFiltered(poolsFiltered(ps, o), o)

----------------------------------------------------------------------------
(* triangularNewEngine.js: one triple of findTriangularArbitrage           *)

maxProfitPct == 50
maxLossPct == 90
maxPoolsPerLeg == 6

LegBreakdown(pool, inputMint, outputMint, inputAtomic, leg) ==
    [pool |-> pool.poolAddress, inputMint |-> inputMint, outputMint |-> outputMint,
     inputAtomic |-> inputAtomic, outputAtomic |-> leg.dyAtomic,
     sim |-> leg.sim, cost |-> leg.cost]

\* leg.cost?.ok ? toDecimal(leg.cost.totalCostTokenOutAtomic) : new Decimal(0)
LegCostAtomic(leg) == IF leg.cost.ok THEN leg.cost.totalCostTokenOutAtomic ELSE Zero

\* costTotalA_atomic with the cost of leg 1 taken back to A over the mid price of
\* leg 1 instead of forward over the mid prices of legs 2 and 3
costTotalA_overLeg1Mid(o, leg1, leg2, leg3) ==
    DAdd(DFloor(humanToAtomic(
             DAdd(DDiv(atomicToHuman(LegCostAtomic(leg1), leg1.oriented.quoteDecimals),
                       leg1.sim.midPrice),
                  DMul(atomicToHuman(LegCostAtomic(leg2), leg2.oriented.quoteDecimals),
                       leg3.sim.midPrice)),
             tokenDecimalsByMint(o.tokenA, 9))),
         LegCostAtomic(leg3))

\* the three legs' analytical costs in atomic units of token A
costTotalA_atomic(o, leg1, leg2, leg3) ==
    DAdd(DFloor(humanToAtomic(
             DAdd(DMul(DMul(atomicToHuman(LegCostAtomic(leg1), leg1.oriented.quoteDecimals),
                            leg2.sim.midPrice),
                       leg3.sim.midPrice),
                  DMul(atomicToHuman(LegCostAtomic(leg2), leg2.oriented.quoteDecimals),
                       leg3.sim.midPrice)),
             tokenDecimalsByMint(o.tokenA, 9))),
         LegCostAtomic(leg3))

\* CycleResult with passes taken from the profit before costs
CycleResultOnRawProfit(t, o, inputA, leg1, leg2, leg3, profitAtomic, profitPct, netAfterCostsAtomic, netAfterCostsPct) ==
    [tokenA |-> o.tokenA, tokenB |-> t.B, tokenC |-> o.tokenC,
     pools |-> <<t.pAB.poolAddress, t.pBC.poolAddress, t.pCA.poolAddress>>,
     inputAtomic |-> inputA, outputAtomic |-> leg3.dyAtomic,
     profitAtomic |-> profitAtomic, profitPct |-> profitPct,
     netAfterCostsAtomic |-> netAfterCostsAtomic,
     netAfterCostsPct |-> netAfterCostsPct,
     passes |-> DGe(profitPct, o.minProfitPct),
     legBreakdowns |->
        [leg1 |-> LegBreakdown(t.pAB, o.tokenA, t.B, inputA, leg1),
         leg2 |-> LegBreakdown(t.pBC, t.B, o.tokenC, leg1.dyAtomic, leg2),
         leg3 |-> LegBreakdown(t.pCA, o.tokenC, o.tokenA, leg2.dyAtomic, leg3)]]

\* the record pushed to results; its amounts are written with toString() and read
\* back with new Decimal(), which returns the same Decimal
CycleResult(t, o, inputA, leg1, leg2, leg3, profitAtomic, profitPct, netAfterCostsAtomic, netAfterCostsPct) ==
    [tokenA |-> o.tokenA, tokenB |-> t.B, tokenC |-> o.tokenC,
     pools |-> <<t.pAB.poolAddress, t.pBC.poolAddress, t.pCA.poolAddress>>,
     inputAtomic |-> inputA, outputAtomic |-> leg3.dyAtomic,
     profitAtomic |-> profitAtomic, profitPct |-> profitPct,
     netAfterCostsAtomic |-> netAfterCostsAtomic,
     netAfterCostsPct |-> netAfterCostsPct,
     passes |-> DGe(netAfterCostsPct, o.minProfitPct),
     legBreakdowns |->
        [leg1 |-> LegBreakdown(t.pAB, o.tokenA, t.B, inputA, leg1),
         leg2 |-> LegBreakdown(t.pBC, t.B, o.tokenC, leg1.dyAtomic, leg2),
         leg3 |-> LegBreakdown(t.pCA, o.tokenC, o.tokenA, leg2.dyAtomic, leg3)]]

CycleWithNet(t, o, inputA, leg1, leg2, leg3, profitAtomic, profitPct, netAfterCostsAtomic) ==
    CycleResult(t, o, inputA, leg1, leg2, leg3, profitAtomic, profitPct,
                netAfterCostsAtomic, DMul(DDiv(netAfterCostsAtomic, inputA), DInt(100)))

Emitted(cycle) == [kind |-> "cycle", cycle |-> cycle]
NotEmitted(kind) == [kind |-> kind, cycle |-> <<>>]

\* AfterProfit with the safety filter checking the upper bound only
AfterProfitUpperBoundOnly(t, o, inputA, leg1, leg2, leg3, profitAtomic, profitPct) ==
    IF DGt(profitPct, o.maxProfitPct)
    THEN NotEmitted("suspicious")
    ELSE Emitted(CycleWithNet(t, o, inputA, leg1, leg2, leg3, profitAtomic, profitPct,
                     DSub(profitAtomic, costTotalA_atomic(o, leg1, leg2, leg3))))

\* the safety filter, then the costs
AfterProfit(t, o, inputA, leg1, leg2, leg3, profitAtomic, profitPct) ==
    IF DGt(profitPct, o.maxProfitPct) \/ DLt(profitPct, DSub(Zero, o.maxLossPct))
    THEN NotEmitted("suspicious")
    ELSE Emitted(CycleWithNet(t, o, inputA, leg1, leg2, leg3, profitAtomic, profitPct,
                     DSub(profitAtomic, costTotalA_atomic(o, leg1, leg2, leg3))))

AfterLeg3(t, o, inputA, leg1, leg2, leg3) ==
    IF leg3.threw THEN NotEmitted("threw")
    ELSE IF ~leg3.ok THEN NotEmitted("leg3")
    ELSE AfterProfit(t, o, inputA, leg1, leg2, leg3, DSub(leg3.dyAtomic, inputA),
                     DMul(DDiv(DSub(leg3.dyAtomic, inputA), inputA), DInt(100)))

AfterLeg2(t, o, inputA, leg1, leg2) ==
    IF leg2.threw THEN NotEmitted("threw")
    ELSE IF ~leg2.ok THEN NotEmitted("leg2")
    ELSE AfterLeg3(t, o, inputA, leg1, leg2,
                   simulateLeg(t.pCA, o.tokenC, o.tokenA, leg2.dyAtomic))

\* AfterLeg1 with the leg's analytical cost taken off the amount handed to leg 2
AfterLeg1CostDeducted(t, o, inputA, leg1) ==
    IF leg1.threw THEN NotEmitted("threw")
    ELSE IF ~leg1.ok THEN NotEmitted("leg1")
    ELSE AfterLeg2(t, o, inputA, leg1,
                   simulateLeg(t.pBC, t.B, o.tokenC,
                               DSub(leg1.dyAtomic, LegCostAtomic(leg1))))

AfterLeg1(t, o, inputA, leg1) ==
    IF leg1.threw THEN NotEmitted("threw")
    ELSE IF ~leg1.ok THEN NotEmitted("leg1")
    ELSE AfterLeg2(t, o, inputA, leg1, simulateLeg(t.pBC, t.B, o.tokenC, leg1.dyAtomic))

TripleFrom(t, o, inputA) ==
    AfterLeg1(t, o, inputA, simulateLeg(t.pAB, o.tokenA, t.B, inputA))

\* the body of the innermost loop for the triple t: a cycle to push, a continue
\* (kind leg1, leg2, leg3, suspicious) or an exception out of a leg
TripleOutcome(t, o) == TripleFrom(t, o, floorAtomic(o.inputAmountAtomic))

\* results.sort by netAfterCostsPct, descending; Array.prototype.sort is stable
RECURSIVE InsertByNet(_, _)
InsertByNet(sorted, r) ==
    IF sorted = <<>> THEN <<r>>
    ELSE IF DGt(r.netAfterCostsPct, Head(sorted).netAfterCostsPct) THEN <<r>> \o sorted
    ELSE <<Head(sorted)>> \o InsertByNet(Tail(sorted), r)

RECURSIVE SortInto(_, _)
SortInto(sorted, rest) ==
    IF rest = <<>> THEN sorted ELSE SortInto(InsertByNet(sorted, Head(rest)), Tail(rest))

sortByNet(rs) == SortInto(<<>>, rs)

----------------------------------------------------------------------------
(* The replacement engine (unnamed/part_009, lines 1-460).  Its swap layer, *)
(* processSwap({ pool, dx, opts }) returning dyHuman, and its                *)
(* computeTotalCostTokenOut are not among the sources: they follow the CPMM  *)
(* kernel and the analytical cost of the specification.                      *)

maxRoutes == 200

\* x && ..., for a value that is undefined or a string
Truthy(v) == v.k # "null"

KernelResult(dxHuman, fee, dxAfterFee, dyHuman, midPrice) ==
    [threw |-> FALSE, dyHuman |-> dyHuman, feePaidHuman |-> DMul(dxHuman, fee),
     midPrice |-> midPrice, executionPrice |-> DDiv(dyHuman, dxHuman),
     priceImpactPct |->
        DMul(DDiv(DAbs(DSub(midPrice, DDiv(dyHuman, dxAfterFee))), midPrice), DInt(100))]

KernelThrew ==
    [threw |-> TRUE, dyHuman |-> Zero, feePaidHuman |-> Zero, midPrice |-> Zero,
     executionPrice |-> Zero, priceImpactPct |-> Zero]

KernelAfterFee(xHuman, yHuman, dxHuman, fee, dxAfterFee) ==
    IF ~isFinitePositive(dxAfterFee) THEN KernelThrew
    ELSE KernelResult(dxHuman, fee, dxAfterFee,
                      DDiv(DMul(yHuman, dxAfterFee), DAdd(xHuman, dxAfterFee)),
                      DDiv(yHuman, xHuman))

\* the CPMM kernel on the reserves of the input side (x) and the output side (y)
CpmmKernel(xHuman, yHuman, dxHuman, fee) ==
    IF ~isFinitePositive(xHuman) \/ ~isFinitePositive(yHuman) \/ ~isFinitePositive(dxHuman)
    THEN KernelThrew
    ELSE KernelAfterFee(xHuman, yHuman, dxHuman, fee, DSub(dxHuman, DMul(dxHuman, fee)))

processSwapV2(pool, dx, feeRate, isReverse) ==
    IF isReverse
    THEN CpmmKernel(atomicToHuman(toDecimal(pool.yReserve), pool.quoteDecimals),
                    atomicToHuman(toDecimal(pool.xReserve), pool.baseDecimals),
                    atomicToHuman(dx, pool.quoteDecimals), feeRate)
    ELSE CpmmKernel(atomicToHuman(toDecimal(pool.xReserve), pool.baseDecimals),
                    atomicToHuman(toDecimal(pool.yReserve), pool.quoteDecimals),
                    atomicToHuman(dx, pool.baseDecimals), feeRate)

CostOfSwap(sim, feeCostOut, slippage) ==
    [totalCostTokenOutHuman |->
        DAdd(feeCostOut, IF DLt(slippage, Zero) THEN Zero ELSE slippage)]

\* fee_cost_out = dx * fee * mid, slippage_cost_out = max(0, dx * mid - fee_cost_out - dy)
CostOfSim(sim, feeRate, dxHuman) ==
    IF sim.threw THEN [totalCostTokenOutHuman |-> Zero]
    ELSE CostOfSwap(sim, DMul(sim.feePaidHuman, sim.midPrice),
                    DSub(DSub(DMul(dxHuman, sim.midPrice),
                              DMul(sim.feePaidHuman, sim.midPrice)), sim.dyHuman))

computeTotalCostTokenOutV2(pool, dx, feeRate, isReverse) ==
    CostOfSim(processSwapV2(pool, dx, feeRate, isReverse), feeRate,
              atomicToHuman(dx, IF isReverse THEN pool.quoteDecimals ELSE pool.baseDecimals))

NoDirection == [isNull |-> TRUE, isReverse |-> FALSE, inDecimals |-> 0, outDecimals |-> 0]

computeDirection(pool, inputMint, outputMint) ==
    IF inputMint = pool.baseMint /\ outputMint = pool.quoteMint
    THEN [isNull |-> FALSE, isReverse |-> FALSE, inDecimals |-> pool.baseDecimals,
          outDecimals |-> pool.quoteDecimals]
    ELSE IF inputMint = pool.quoteMint /\ outputMint = pool.baseMint
    THEN [isNull |-> FALSE, isReverse |-> TRUE, inDecimals |-> pool.quoteDecimals,
          outDecimals |-> pool.baseDecimals]
    ELSE NoDirection

\* humanToAtomic of the replacement swap layer floors
floorAtomicFromHuman(human, decimals) == DFloor(humanToAtomic(human, decimals))

LegNotOk(reason) == [ok |-> FALSE, reason |-> reason]

LegOfSim(pool, dir, dxA, sim) ==
    IF sim.threw THEN LegNotOk("processSwap_failed")
    ELSE [ok |-> TRUE, reason |-> "", dxAtomic |-> dxA,
          dxHuman |-> atomicToHuman(dxA, dir.inDecimals),
          dyAtomic |-> floorAtomicFromHuman(sim.dyHuman, dir.outDecimals),
          dyHuman |-> sim.dyHuman, inDecimals |-> dir.inDecimals,
          outDecimals |-> dir.outDecimals, feePaidHuman |-> sim.feePaidHuman,
          midPrice |-> sim.midPrice, executionPrice |-> sim.executionPrice,
          priceImpactPct |-> sim.priceImpactPct,
          cost |-> computeTotalCostTokenOutV2(pool, dxA, pool.fee, dir.isReverse)]

hasReserves(pool) ==
    /\ Truthy(pool.xReserve) /\ Truthy(pool.yReserve)
    /\ DGt(toDecimal(pool.xReserve), Zero) /\ DGt(toDecimal(pool.yReserve), Zero)

\* the pools here are cpmm pools and no SDK adapter is loaded
LegInDirection(pool, dir, dxA) ==
    IF dir.isNull THEN LegNotOk("mint_mismatch")
    ELSE IF DLe(dxA, Zero) THEN LegNotOk("dx<=0")
    ELSE IF ~hasReserves(pool) THEN LegNotOk("missing_reserves")
    ELSE LegOfSim(pool, dir, dxA, processSwapV2(pool, dxA, pool.fee, dir.isReverse))

simulateLegV2(pool, inputMint, outputMint, dxAtomic) ==
    LegInDirection(pool, computeDirection(pool, inputMint, outputMint), dxAtomic)

\* Number(p.fee), with a fee that is not finite set to 0
FeeNumber(fee) == IF fee.k = "num" THEN fee.v ELSE Zero

\* `if (!Number.isFinite(Number(p.fee))) p.fee = 0` in the filter callback: p is
\* the caller's object, and the assignment is reached by every pool that has its
\* address and its mints
RECURSIVE FeesDefaulted(_)
FeesDefaulted(ps) ==
    IF ps = <<>> THEN <<>>
    ELSE (IF Head(ps).poolAddress = "" \/ Head(ps).baseMint = "" \/ Head(ps).quoteMint = ""
          THEN <<Head(ps)>>
          ELSE <<[Head(ps) EXCEPT !.fee = JNum(FeeNumber(Head(ps).fee))]>>) \o FeesDefaulted(Tail(ps))

\* the pools the filter keeps, their fee made a number; every pool here has its
\* decimals, and no pool is of a type that needs the SDK adapter
RECURSIVE usable(_)
usable(ps) ==
    IF ps = <<>> THEN <<>>
    ELSE (IF Head(ps).poolAddress = "" \/ Head(ps).baseMint = "" \/ Head(ps).quoteMint = ""
          THEN <<>>
          ELSE IF Head(ps).type \in {"cpmm", "dlmm"}
                  /\ ~(Truthy(Head(ps).xReserve) /\ Truthy(Head(ps).yReserve))
          THEN <<>>
          ELSE <<[Head(ps) EXCEPT !.fee = FeeNumber(Head(ps).fee)]>>) \o usable(Tail(ps))

\* byPair.get(a-b) of indexPools
RECURSIVE byPair(_, _, _)
byPair(ps, a, b) ==
    IF ps = <<>> THEN <<>>
    ELSE (IF Head(ps).baseMint = a /\ Head(ps).quoteMint = b THEN <<Head(ps)>> ELSE <<>>)
         \o (IF Head(ps).quoteMint = a /\ Head(ps).baseMint = b THEN <<Head(ps)>> ELSE <<>>)
         \o byPair(Tail(ps), a, b)

RECURSIVE bCandidates(_, _, _, _)
bCandidates(ps, A, C, members) ==
    IF ps = <<>> THEN members
    ELSE bCandidates(Tail(ps), A, C,
             IF (Head(ps).baseMint = A \/ Head(ps).quoteMint = A)
                /\ ~(Head(ps).baseMint = C \/ Head(ps).quoteMint = C)
                /\ (IF Head(ps).baseMint = A THEN Head(ps).quoteMint ELSE Head(ps).baseMint) # C
             THEN SetAdd(members,
                         IF Head(ps).baseMint = A THEN Head(ps).quoteMint
                         ELSE Head(ps).baseMint)
             ELSE members)

\* tokenA is the WSOL mint, so tokenAList has the one member tokenA
RoutesOfB(ps, A, C, B) ==
    TriplesOfLegs(B, Slice(byPair(ps, A, B), 30), Slice(byPair(ps, B, C), 30),
                  Slice(byPair(ps, C, A), 30))

RECURSIVE RoutesOfCandidates(_, _, _, _)
RoutesOfCandidates(ps, A, C, candidates) ==
    IF candidates = <<>> THEN <<>>
    ELSE RoutesOfB(ps, A, C, Head(candidates)) \o RoutesOfCandidates(ps, A, C, Tail(candidates))

RoutesOfUsable(ps, o) ==
    RoutesOfCandidates(ps, o.tokenA, o.tokenC, bCandidates(ps, o.tokenA, o.tokenC, <<>>))

\* every (bMint, p1, p2, p3) of the nested loops, in the order of the loops
Routes(ps, o) == RoutesOfUsable(usable(ps), o)

\* a cost goes into costsA when it and the price that converts it are positive
CostIfPositive(cost, price, converted) ==
    IF DGt(cost, Zero) /\ DGt(price, Zero) THEN converted ELSE Zero

costsA(leg1, leg2, leg3) ==
    DAdd(DAdd(CostIfPositive(leg1.cost.totalCostTokenOutHuman, leg1.midPrice,
                             DDiv(leg1.cost.totalCostTokenOutHuman, leg1.midPrice)),
              CostIfPositive(leg2.cost.totalCostTokenOutHuman, leg3.midPrice,
                             DMul(leg2.cost.totalCostTokenOutHuman, leg3.midPrice))),
         leg3.cost.totalCostTokenOutHuman)

RouteResult(t, o, dxA, leg1, leg2, leg3, netAfterCostsPct) ==
    [tokenA |-> o.tokenA, tokenB |-> t.B, tokenC |-> o.tokenC,
     pools |-> <<t.pAB, t.pBC, t.pCA>>,
     legs |-> <<leg1, leg2, leg3>>,
     inputAtomic |-> dxA, outputAtomic |-> leg3.dyAtomic,
     profitPct |-> DMul(DDiv(DSub(leg3.dyAtomic, dxA), dxA), DInt(100)),
     netAfterCostsPct |-> netAfterCostsPct,
     passes |-> DGe(netAfterCostsPct, o.thresholdPct)]

RouteAfterLeg3(t, o, dxA, leg1, leg2, leg3) ==
    IF ~leg3.ok THEN NotEmitted("leg3")
    ELSE Emitted(RouteResult(t, o, dxA, leg1, leg2, leg3,
             DMul(DDiv(DSub(DSub(atomicToHuman(leg3.dyAtomic, 9), costsA(leg1, leg2, leg3)),
                            atomicToHuman(dxA, 9)),
                       atomicToHuman(dxA, 9)), DInt(100))))

RouteAfterLeg2(t, o, dxA, leg1, leg2) ==
    IF ~leg2.ok THEN NotEmitted("leg2")
    ELSE RouteAfterLeg3(t, o, dxA, leg1, leg2,
                        simulateLegV2(t.pCA, o.tokenC, o.tokenA, leg2.dyAtomic))

RouteAfterLeg1(t, o, dxA, leg1) ==
    IF ~leg1.ok THEN NotEmitted("leg1")
    ELSE RouteAfterLeg2(t, o, dxA, leg1,
                        simulateLegV2(t.pBC, t.B, o.tokenC, leg1.dyAtomic))

\* the body of the innermost loop below the cap check
RouteOutcome(t, o) ==
    RouteAfterLeg1(t, o, DFloor(toDecimal(o.amountInAtomic)),
                   simulateLegV2(t.pAB, o.tokenA, t.B, DFloor(toDecimal(o.amountInAtomic))))

----------------------------------------------------------------------------
(* Reserve extraction and normalizePool of triangularNewEngine.js.  A raw   *)
(* value is undefined, a number or a string; a string is the sequence of    *)
(* its characters, and an amount is kept as its decimal digits, so that a   *)
(* value of 32 digits is no wider than any other.                           *)

Undefined == [t |-> "undefined", s |-> <<>>, n |-> 0]
Str(s) == [t |-> "string", s |-> s, n |-> 0]
Num(n) == [t |-> "number", s |-> <<>>, n |-> n]

DigitChars == <<"0", "1", "2", "3", "4", "5", "6", "7", "8", "9">>

IsDigit(c) == \E i \in 1..10 : DigitChars[i] = c

\* /^[0-9]+$/ ; the strings here carry no white space, so trim() returns them
AllDigits(s) == Len(s) > 0 /\ \A i \in 1..Len(s) : IsDigit(s[i])

isDigitString(v) == v.t = "string" /\ AllDigits(v.s)

\* /^[0-9]+(\.[0-9]+)?$/
IsDecimalText(s) ==
    \/ AllDigits(s)
    \/ \E k \in 1..Len(s) :
          /\ s[k] = "."
          /\ AllDigits(SubSeq(s, 1, k - 1))
          /\ AllDigits(SubSeq(s, k + 1, Len(s)))

isNumericAtomic(v) ==
    IF v.t = "undefined" THEN FALSE
    ELSE IF v.t = "number" THEN v.n > 0
    ELSE IF Len(v.s) = 0 THEN FALSE
    ELSE IF isDigitString(v) THEN TRUE
    ELSE IsDecimalText(v.s)

\* the digits before the point
RECURSIVE IntegerPart(_)
IntegerPart(s) ==
    IF s = <<>> \/ Head(s) = "." THEN <<>> ELSE <<Head(s)>> \o IntegerPart(Tail(s))

RECURSIVE StripZeros(_)
StripZeros(s) ==
    IF Len(s) > 1 /\ Head(s) = "0" THEN StripZeros(Tail(s)) ELSE s

\* new Decimal(v).floor() as the digits of the result; the numbers here are 0..9
floorAtomicDigits(v) ==
    IF v.t = "number" THEN <<DigitChars[v.n + 1]>>
    ELSE IF v.t = "string" /\ IsDecimalText(v.s) THEN StripZeros(IntegerPart(v.s))
    ELSE <<"0">>

\* candidates.find(isNumericAtomic)
RECURSIVE FindNumeric(_)
FindNumeric(candidates) ==
    IF candidates = <<>> THEN Undefined
    ELSE IF isNumericAtomic(Head(candidates)) THEN Head(candidates)
    ELSE FindNumeric(Tail(candidates))

candidatesX(p) ==
    <<p.xReserve, p.liquidityX, p.reserve_x_amount, p.raw_reserve_x_amount,
      p.raw_reserveXAmount, p.raw_liquidity_x, p.raw_liquidityX>>

candidatesY(p) ==
    <<p.yReserve, p.liquidityY, p.reserve_y_amount, p.raw_reserve_y_amount,
      p.raw_reserveYAmount, p.raw_liquidity_y, p.raw_liquidityY>>

NullAmount == [isNull |-> TRUE, digits |-> <<>>]

AmountFound(v) ==
    IF v.t = "undefined" THEN NullAmount
    ELSE [isNull |-> FALSE, digits |-> floorAtomicDigits(v)]

extractReserveAmountsXY(p) ==
    [xAtomic |-> AmountFound(FindNumeric(candidatesX(p))),
     yAtomic |-> AmountFound(FindNumeric(candidatesY(p)))]

NullPool == [isNull |-> TRUE]

NormalizedWith(p, amounts) ==
    [isNull |-> FALSE, poolAddress |-> p.poolAddress, fee |-> p.fee,
     mintX |-> p.raw_mint_x, mintY |-> p.raw_mint_y,
     xReserveAtomic |-> amounts.xAtomic, yReserveAtomic |-> amounts.yAtomic,
     xDecimals |-> tokenDecimalsByMint(p.raw_mint_x, 9),
     yDecimals |-> tokenDecimalsByMint(p.raw_mint_y, 9),
     tvl |-> 0, volume24h |-> 0]

\* dex, poolType and the symbols are labels and are left out
normalizePool(p) ==
    IF p.poolAddress = "" THEN NullPool
    ELSE IF p.raw_mint_x = "" \/ p.raw_mint_y = "" THEN NullPool
    ELSE NormalizedWith(p, extractReserveAmountsXY(p))

\* !n.xReserveAtomic || n.xReserveAtomic.lte(0)
AmountMissing(a) == a.isNull \/ a.digits = <<"0">>

----------------------------------------------------------------------------
(* One call of simulateLeg on a normalized pool                            *)

LegDecimals == {0, 1, 2}

LegReserves == {JNull, JNum(DInt(0)), JNum(DInt(1)), JNum(DInt(7)), JNum(DInt(100))}

\* raw fee values a pool can carry: fractions, percents, 1, 100, above 100,
\* negative, NaN, a non-numeric string, absent
LegFees ==
    {JNum(Zero), JNum(Dec(1, 100, 0)), JNum(Dec(1, 4, 0)), JNum(DInt(1)),
     JNum(DInt(25)), JNum(DInt(100)), JNum(DInt(150)), JNum(DInt(-1)),
     JNaN, JText, JNull}

LegAmounts == {Zero, DInt(1), DInt(10), Dec(15, 2, 0)}

LegDirections ==
    {<<WSOL_MINT, USDC_MINT>>, <<USDC_MINT, WSOL_MINT>>, <<WSOL_MINT, "B1">>}

LegPools ==
    [poolAddress : {"p1"}, poolType : {"cpmm"}, fee : LegFees, mintX : {WSOL_MINT}, mintY : {USDC_MINT},
     xReserveAtomic : LegReserves, yReserveAtomic : LegReserves,
     xDecimals : LegDecimals, yDecimals : LegDecimals]

\* the parts of the state that a run of one operation leaves out
LegIdle == legIn = [pool |-> <<>>] /\ legOut = [state |-> "idle"]

EngineIdle ==
    /\ pools = <<>> /\ opts = <<>> /\ triples = <<>> /\ next = 0
    /\ results = <<>> /\ status = "idle"

NormalizeIdle == rawPool = <<>> /\ normalized = <<>>

EnrichIdle ==
    /\ poolFile = <<>> /\ sdkFallback = "idle" /\ loaded = <<>> /\ enriched = <<>>
    /\ consulted = <<>> /\ ready = <<>> /\ pc = "idle"

ArbIdle == arbIn = <<>> /\ arbRoute = <<>> /\ arbOut = <<>>

DlmmIdle == binIn = <<>> /\ binWalk = <<>> /\ binOut = <<>>

CpmmIdle == quoteArgs = <<>> /\ quoteOut = <<>> /\ quoteIn = <<>> /\ quoteBack = <<>>

SwapIdle == swapCall = <<>> /\ swapOut = <<>>

SearchIdle == search = <<>>

RpcIdle == rpc = <<>>

ManagerIdle == manager = <<>>

LibIdle == DlmmIdle /\ CpmmIdle /\ SwapIdle /\ SearchIdle /\ RpcIdle /\ ManagerIdle

LegCall == simulateLeg(legIn.pool, legIn.inputMint, legIn.outputMint, legIn.dxAtomic)

InitLeg ==
    /\ \E p \in LegPools, dir \in LegDirections, dx \in LegAmounts :
          legIn = [pool |-> p, inputMint |-> dir[1], outputMint |-> dir[2],
                   dxAtomic |-> dx]
    /\ legOut = [state |-> "pending", res |-> NoLeg]
    /\ EngineIdle
    /\ NormalizeIdle
    /\ EnrichIdle
    /\ ArbIdle /\ LibIdle

LegReturnsOk ==
    /\ legOut.state = "pending"
    /\ LegCall.ok
    /\ legOut' = [state |-> "returned", res |-> LegCall]
    /\ UNCHANGED <<legIn, pools, opts, triples, next, results, status, rawPool, normalized, enrichVars, arbVars, libVars>>

LegReturnsNotOk ==
    /\ legOut.state = "pending"
    /\ ~LegCall.ok /\ ~LegCall.threw
    /\ legOut' = [state |-> "returned", res |-> LegCall]
    /\ UNCHANGED <<legIn, pools, opts, triples, next, results, status, rawPool, normalized, enrichVars, arbVars, libVars>>

LegThrows ==
    /\ legOut.state = "pending"
    /\ LegCall.threw
    /\ legOut' = [state |-> "threw", res |-> LegCall]
    /\ UNCHANGED <<legIn, pools, opts, triples, next, results, status, rawPool, normalized, enrichVars, arbVars, libVars>>

NextLeg == LegReturnsOk \/ LegReturnsNotOk \/ LegThrows

SpecLeg == InitLeg /\ [][NextLeg]_vars

----------------------------------------------------------------------------
(* findTriangularArbitrage of triangularNewEngine.js on a list of pools    *)

NumPools == 4

\* a normalized pool of the catalogue; the mint gives the decimals
EnginePool(address, mintX, mintY, x, y, fee) ==
    [poolAddress |-> address, poolType |-> "cpmm", fee |-> fee, mintX |-> mintX, mintY |-> mintY,
     xReserveAtomic |-> x, yReserveAtomic |-> y,
     xDecimals |-> tokenDecimalsByMint(mintX, 6),
     yDecimals |-> tokenDecimalsByMint(mintY, 6), tvl |-> 0, volume24h |-> 0]

Hundredth == JNum(Dec(1, 100, 0))

R(i) == JNum(DInt(i))

\* ab3 carries the raw fee 1, ab4 a zero reserve; bc2 and bc3 are far off the
\* other prices; ab1 and ab2 are one pool in both mint orders
PoolCatalogue ==
    {EnginePool("ab1", WSOL_MINT, "B1", R(10000), R(10000), Hundredth),
     EnginePool("ab2", "B1", WSOL_MINT, R(10000), R(10000), Hundredth),
     EnginePool("ab3", WSOL_MINT, "B1", R(10000), R(10000), R(1)),
     EnginePool("ab4", WSOL_MINT, "B1", R(0), R(10000), Hundredth),
     EnginePool("bc1", "B1", USDC_MINT, R(10000), R(11000), R(0)),
     EnginePool("bc2", "B1", USDC_MINT, R(10000), R(30000), R(0)),
     EnginePool("bc3", USDC_MINT, "B1", R(500), R(10000), R(0)),
     EnginePool("bc4", "B1", USDC_MINT, R(10000), R(10800), R(0)),
     EnginePool("ca1", USDC_MINT, WSOL_MINT, R(10000), R(10000), R(0)),
     EnginePool("ca2", WSOL_MINT, USDC_MINT, R(1000), R(10000), R(0))}

PoolLists ==
    UNION {{s \in [1..n -> PoolCatalogue] : \A i, j \in 1..n : s[i] = s[j] => i = j} :
           n \in 0..NumPools}

DefaultOptions ==
    [tokenA |-> WSOL_MINT, tokenC |-> USDC_MINT, inputAmountAtomic |-> R(100),
     minProfitPct |-> Dec(1, 10, 0), maxProfitPct |-> DInt(maxProfitPct),
     maxLossPct |-> DInt(maxLossPct), maxPoolsPerLeg |-> maxPoolsPerLeg,
     minTvl |-> 0, minVolume24h |-> 0, filterMispricedSolUsdc |-> TRUE]

\* the defaults, a call with a fractional amount and a threshold of 1 %, and a
\* call with one pool per leg
EngineOptions ==
    {DefaultOptions,
     [DefaultOptions EXCEPT !.inputAmountAtomic = JNum(Dec(201, 2, 0)),
                            !.minProfitPct = DInt(1)],
     [DefaultOptions EXCEPT !.maxPoolsPerLeg = 1]}

Init ==
    /\ pools \in PoolLists
    /\ opts \in EngineOptions
    /\ triples = <<>>
    /\ next = 0
    /\ results = <<>>
    /\ status = "called"
    /\ LegIdle
    /\ NormalizeIdle
    /\ EnrichIdle
    /\ ArbIdle /\ LibIdle

\* if (!Array.isArray(pools) || pools.length === 0) return []
ReturnEmpty ==
    /\ status = "called"
    /\ Len(pools) = 0
    /\ status' = "returned"
    /\ UNCHANGED <<legIn, legOut, pools, opts, triples, next, results, rawPool, normalized, enrichVars, arbVars, libVars>>

\* the filters, the pair index and the candidate B tokens, up to the loops
BuildIndex ==
    /\ status = "called"
    /\ Len(pools) > 0
    /\ triples' = Triples(pools, opts)
    /\ next' = 1
    /\ status' = "running"
    /\ UNCHANGED <<legIn, legOut, pools, opts, results, rawPool, normalized, enrichVars, arbVars, libVars>>

AtTriple == status = "running" /\ next <= Len(triples)

EmitCycle ==
    /\ AtTriple
    /\ \E outcome \in {TripleOutcome(triples[next], opts)} :
          /\ outcome.kind = "cycle"
          /\ results' = Append(results, outcome.cycle)
    /\ next' = next + 1
    /\ UNCHANGED <<legIn, legOut, pools, opts, triples, status, rawPool, normalized, enrichVars, arbVars, libVars>>

\* if (!leg.ok) continue
SkipTriple ==
    /\ AtTriple
    /\ TripleOutcome(triples[next], opts).kind \in {"leg1", "leg2", "leg3"}
    /\ next' = next + 1
    /\ UNCHANGED <<legIn, legOut, pools, opts, triples, results, status, rawPool, normalized, enrichVars, arbVars, libVars>>

DiscardSuspicious ==
    /\ AtTriple
    /\ TripleOutcome(triples[next], opts).kind = "suspicious"
    /\ next' = next + 1
    /\ UNCHANGED <<legIn, legOut, pools, opts, triples, results, status, rawPool, normalized, enrichVars, arbVars, libVars>>

\* an exception out of simulateLeg is not caught: the promise rejects
Reject ==
    /\ AtTriple
    /\ TripleOutcome(triples[next], opts).kind = "threw"
    /\ status' = "rejected"
    /\ UNCHANGED <<legIn, legOut, pools, opts, triples, next, results, rawPool, normalized, enrichVars, arbVars, libVars>>

SortAndReturn ==
    /\ status = "running"
    /\ next > Len(triples)
    /\ results' = sortByNet(results)
    /\ status' = "returned"
    /\ UNCHANGED <<legIn, legOut, pools, opts, triples, next, rawPool, normalized, enrichVars, arbVars, libVars>>

Next ==
    \/ ReturnEmpty \/ BuildIndex \/ EmitCycle \/ SkipTriple \/ DiscardSuspicious
    \/ Reject \/ SortAndReturn

Spec == Init /\ [][Next]_vars

----------------------------------------------------------------------------
(* findTriangularArbitrage of the replacement engine on a list of pools    *)

RoutePool(address, baseMint, quoteMint, x, y, fee) ==
    [poolAddress |-> address, type |-> "cpmm", baseMint |-> baseMint,
     quoteMint |-> quoteMint, baseDecimals |-> tokenDecimalsByMint(baseMint, 6),
     quoteDecimals |-> tokenDecimalsByMint(quoteMint, 6),
     xReserve |-> x, yReserve |-> y, fee |-> fee]

\* bc3 has the reserve "0", bc4 no reserves, ab2 no fee
RoutePoolCatalogue ==
    {RoutePool("ab1", WSOL_MINT, "B1", R(91), R(100), JNum(Dec(1, 10, 0))),
     RoutePool("ab2", "B1", WSOL_MINT, R(100), R(90), JNull),
     RoutePool("bc1", "B1", USDC_MINT, R(90), R(108), R(0)),
     RoutePool("bc2", USDC_MINT, "B1", R(120), R(90), R(0)),
     RoutePool("bc3", "B1", USDC_MINT, R(0), R(100), R(0)),
     RoutePool("bc4", "B1", USDC_MINT, JNull, JNull, R(0)),
     RoutePool("ca1", USDC_MINT, WSOL_MINT, R(88), R(100), R(0))}

RoutePoolLists ==
    UNION {{s \in [1..n -> RoutePoolCatalogue] : \A i, j \in 1..n : s[i] = s[j] => i = j} :
           n \in 0..NumPools}

DefaultRouteOptions ==
    [tokenA |-> WSOL_MINT, tokenC |-> USDC_MINT, amountInAtomic |-> R(10),
     thresholdPct |-> Dec(1, 10, 0), maxRoutes |-> maxRoutes]

\* the defaults, a cap of one route, and a call with no amount
RouteOptions ==
    {DefaultRouteOptions,
     [DefaultRouteOptions EXCEPT !.maxRoutes = 1],
     [DefaultRouteOptions EXCEPT !.amountInAtomic = JNull]}

InitV2 ==
    /\ pools \in RoutePoolLists
    /\ opts \in RouteOptions
    /\ triples = <<>>
    /\ next = 0
    /\ results = <<>>
    /\ status = "called"
    /\ LegIdle
    /\ NormalizeIdle
    /\ EnrichIdle
    /\ ArbIdle /\ LibIdle

\* the filter, the index and the candidates, up to the loops; the filter has
\* written the fee of the caller's pools
IndexRoutes ==
    /\ status = "called"
    /\ DGt(DFloor(toDecimal(opts.amountInAtomic)), Zero)
    /\ triples' = Routes(pools, opts)
    /\ pools' = FeesDefaulted(pools)
    /\ next' = 1
    /\ status' = "running"
    /\ UNCHANGED <<legIn, legOut, opts, results, rawPool, normalized, enrichVars, arbVars, libVars>>

\* if (dxA.lte(0)) throw new Error('amountInAtomic must be > 0'): thrown after
\* the filter has run
RejectAmount ==
    /\ status = "called"
    /\ ~DGt(DFloor(toDecimal(opts.amountInAtomic)), Zero)
    /\ pools' = FeesDefaulted(pools)
    /\ status' = "rejected"
    /\ UNCHANGED <<legIn, legOut, opts, triples, next, results, rawPool, normalized, enrichVars, arbVars, libVars>>

AtRoute == status = "running" /\ next <= Len(triples) /\ Len(results) < opts.maxRoutes

PushRoute ==
    /\ AtRoute
    /\ \E outcome \in {RouteOutcome(triples[next], opts)} :
          /\ outcome.kind = "cycle"
          /\ results' = Append(results, outcome.cycle)
    /\ next' = next + 1
    /\ UNCHANGED <<legIn, legOut, pools, opts, triples, status, rawPool, normalized, enrichVars, arbVars, libVars>>

SkipRoute ==
    /\ AtRoute
    /\ RouteOutcome(triples[next], opts).kind # "cycle"
    /\ next' = next + 1
    /\ UNCHANGED <<legIn, legOut, pools, opts, triples, results, status, rawPool, normalized, enrichVars, arbVars, libVars>>

\* the loops end, or routes.length >= maxRoutes breaks out of all of them; then
\* the routes are sorted and returned
SortRoutes ==
    /\ status = "running"
    /\ next > Len(triples) \/ Len(results) >= opts.maxRoutes
    /\ results' = sortByNet(results)
    /\ status' = "returned"
    /\ UNCHANGED <<legIn, legOut, pools, opts, triples, next, rawPool, normalized, enrichVars, arbVars, libVars>>

NextV2 == IndexRoutes \/ RejectAmount \/ PushRoute \/ SkipRoute \/ SortRoutes

SpecV2 == InitV2 /\ [][NextV2]_vars

----------------------------------------------------------------------------
(* One raw pool through normalizePool and the loop of loadPoolsFromJsonFile *)

VaultLen == 32

Rep(c, n) == [i \in 1..n |-> c]

\* a vault address of letters, and one made of the digit 1 only
VaultOfLetters == Str(Rep("V", VaultLen))
VaultOfDigits == Str(Rep("1", VaultLen))

RawValues ==
    {Undefined, Str(<<>>), Str(<<"0">>), Str(<<"1", "2", "3">>),
     Str(<<"1", "2", ".", "5">>), Str(<<"0", "7">>), VaultOfLetters, VaultOfDigits,
     Num(5), Num(0)}

XFields ==
    {"liquidityX", "reserve_x_amount", "raw_reserve_x_amount", "raw_reserveXAmount",
     "raw_liquidity_x", "raw_liquidityX"}

YFields ==
    {"yReserve", "liquidityY", "reserve_y_amount", "raw_reserve_y_amount",
     "raw_reserveYAmount", "raw_liquidity_y", "raw_liquidityY"}

\* reserve_x and reserve_y hold the vault addresses, as the pool files have them
EmptyRawPool ==
    [poolAddress |-> "p1", fee |-> R(0), raw_mint_x |-> WSOL_MINT, raw_mint_y |-> USDC_MINT,
     raw_reserve_x |-> VaultOfLetters, raw_reserve_y |-> VaultOfLetters,
     xReserve |-> Undefined, liquidityX |-> Undefined, reserve_x_amount |-> Undefined,
     raw_reserve_x_amount |-> Undefined, raw_reserveXAmount |-> Undefined,
     raw_liquidity_x |-> Undefined, raw_liquidityX |-> Undefined,
     yReserve |-> Undefined, liquidityY |-> Undefined, reserve_y_amount |-> Undefined,
     raw_reserve_y_amount |-> Undefined, raw_reserveYAmount |-> Undefined,
     raw_liquidity_y |-> Undefined, raw_liquidityY |-> Undefined]

\* xReserve, one more field of the x side and one field of the y side are set
RawPools ==
    {[EmptyRawPool EXCEPT !.poolAddress = a, !.xReserve = w, ![f] = v, ![g] = u] :
        a \in {"p1", ""}, w \in RawValues, f \in XFields, v \in RawValues,
        g \in YFields, u \in {Str(<<"1", "2", "3">>), VaultOfDigits}}

InitNormalize ==
    /\ rawPool \in RawPools
    /\ normalized = <<>>
    /\ pools = <<>>
    /\ opts = <<>>
    /\ triples = <<>>
    /\ next = 0
    /\ results = <<>>
    /\ status = "called"
    /\ LegIdle
    /\ EnrichIdle
    /\ ArbIdle /\ LibIdle

NormalizeRaw ==
    /\ status = "called"
    /\ normalized' = normalizePool(rawPool)
    /\ status' = "normalized"
    /\ UNCHANGED <<legIn, legOut, pools, opts, triples, next, results, rawPool, enrichVars, arbVars, libVars>>

\* if (!n) continue
SkipUnidentified ==
    /\ status = "normalized"
    /\ normalized.isNull
    /\ status' = "skipped"
    /\ UNCHANGED <<legIn, legOut, pools, opts, triples, next, results, rawPool, normalized, enrichVars, arbVars, libVars>>

DropMissingReserves ==
    /\ status = "normalized"
    /\ ~normalized.isNull
    /\ AmountMissing(normalized.xReserveAtomic) \/ AmountMissing(normalized.yReserveAtomic)
    /\ status' = "dropped"
    /\ UNCHANGED <<legIn, legOut, pools, opts, triples, next, results, rawPool, normalized, enrichVars, arbVars, libVars>>

\* minTvl and minVolume24h are 0, which every pool meets
PushNormalized ==
    /\ status = "normalized"
    /\ ~normalized.isNull
    /\ ~AmountMissing(normalized.xReserveAtomic)
    /\ ~AmountMissing(normalized.yReserveAtomic)
    /\ pools' = Append(pools, normalized)
    /\ status' = "loaded"
    /\ UNCHANGED <<legIn, legOut, opts, triples, next, results, rawPool, normalized, enrichVars, arbVars, libVars>>

NextNormalize == NormalizeRaw \/ SkipUnidentified \/ DropMissingReserves \/ PushNormalized

SpecNormalize == InitNormalize /\ [][NextNormalize]_vars

----------------------------------------------------------------------------
(* A round trip: simulateLeg from one mint of a pool to the other, then     *)
(* simulateLeg on its dyAtomic in the opposite direction on the same pool   *)

\* raw fees whose fraction is below 1
RoundFees == {JNum(Zero), JNum(Dec(1, 100, 0)), JNum(Dec(1, 4, 0)), JNum(DInt(25))}

RoundReserves == {<<100, 200>>, <<200, 100>>, <<10, 100>>, <<7, 7>>}

RoundDecimals == {<<9, 6>>, <<6, 6>>}

RoundAmounts == {DInt(1), DInt(5), DInt(20), Dec(3, 2, 0), Dec(1, 2, 0)}

RoundKinds == {"cpmm", "clmm", "whirlpool"}

RoundPools ==
    {[poolAddress |-> "p1", poolType |-> k, fee |-> f, mintX |-> WSOL_MINT, mintY |-> USDC_MINT,
      xReserveAtomic |-> R(r[1]), yReserveAtomic |-> R(r[2]),
      xDecimals |-> d[1], yDecimals |-> d[2]] :
        k \in RoundKinds, f \in RoundFees, r \in RoundReserves, d \in RoundDecimals}

InitRound ==
    /\ \E p \in RoundPools, dir \in {<<WSOL_MINT, USDC_MINT>>, <<USDC_MINT, WSOL_MINT>>},
          dx \in RoundAmounts :
          legIn = [pool |-> p, inputMint |-> dir[1], outputMint |-> dir[2],
                   dxAtomic |-> dx]
    /\ legOut = [state |-> "pending", res |-> NoLeg, back |-> NoLeg]
    /\ EngineIdle
    /\ NormalizeIdle
    /\ EnrichIdle
    /\ ArbIdle /\ LibIdle

\* the swap back: the same pool, the mints exchanged, dx the forward dyAtomic
BackCall == simulateLeg(legIn.pool, legIn.outputMint, legIn.inputMint, legOut.res.dyAtomic)

RoundForward ==
    /\ legOut.state = "pending"
    /\ LegCall.ok
    /\ legOut' = [legOut EXCEPT !.state = "forward", !.res = LegCall]
    /\ UNCHANGED <<legIn, pools, opts, triples, next, results, status, rawPool, normalized, enrichVars, arbVars, libVars>>

RoundForwardRefused ==
    /\ legOut.state = "pending"
    /\ ~LegCall.ok
    /\ legOut' = [legOut EXCEPT !.state = "refused", !.res = LegCall]
    /\ UNCHANGED <<legIn, pools, opts, triples, next, results, status, rawPool, normalized, enrichVars, arbVars, libVars>>

RoundBack ==
    /\ legOut.state = "forward"
    /\ BackCall.ok
    /\ legOut' = [legOut EXCEPT !.state = "back", !.back = BackCall]
    /\ UNCHANGED <<legIn, pools, opts, triples, next, results, status, rawPool, normalized, enrichVars, arbVars, libVars>>

RoundBackRefused ==
    /\ legOut.state = "forward"
    /\ ~BackCall.ok
    /\ legOut' = [legOut EXCEPT !.state = "backRefused", !.back = BackCall]
    /\ UNCHANGED <<legIn, pools, opts, triples, next, results, status, rawPool, normalized, enrichVars, arbVars, libVars>>

NextRound == RoundForward \/ RoundForwardRefused \/ RoundBack \/ RoundBackRefused

SpecRound == InitRound /\ [][NextRound]_vars

----------------------------------------------------------------------------
(* unifiedReservesFetcher.js and loadAndEnrichPools (unnamed/part_009).  A  *)
(* value is undefined/null, a string, a number or a BigInt; the amounts are *)
(* 0..9.  The mints of a pool play no part here and are left out, with      *)
(* alignPoolOrder, which only touches them.                                 *)

BigIntOf(n) == [t |-> "bigint", s |-> <<>>, n |-> n]

\* String(v) and bi.toString(), called on strings, numbers and BigInts
StringOf(v) == IF v.t \in {"number", "bigint"} THEN Str(<<DigitChars[v.n + 1]>>) ELSE v

toStrBigInt(bi) == IF bi = Undefined THEN Undefined ELSE StringOf(bi)

\* what a value counts as in a condition
ToBoolean(v) == (v.t = "string" /\ v.s # <<>>) \/ (v.t \in {"number", "bigint"} /\ v.n # 0)

\* a ?? b
Nullish(a, b) == IF a = Undefined THEN b ELSE a

isBase58ish(v) == v.t = "string" /\ Len(v.s) >= 32 /\ Len(v.s) <= 44

RECURSIVE pick(_, _)
pick(obj, keys) ==
    IF keys = <<>> THEN Undefined
    ELSE IF Head(keys) \in DOMAIN obj /\ obj[Head(keys)] # Undefined /\ obj[Head(keys)] # Str(<<>>)
    THEN obj[Head(keys)]
    ELSE pick(obj, Tail(keys))

\* the type strings here are the four kinds in lower case, or empty
detectTypeOfPool(pool) ==
    IF pool.type \in {"whirlpool", "clmm", "dlmm", "cpmm"} THEN pool.type
    ELSE IF pool.dex = "orca" THEN "whirlpool"
    ELSE IF pool.dex = "meteora" THEN "dlmm"
    ELSE "cpmm"

VaultOr(first, second) ==
    IF isBase58ish(first) THEN first ELSE IF isBase58ish(second) THEN second ELSE Undefined

extractVaultAddresses(pool) ==
    [vaultX |-> VaultOr(pick(pool.raw, <<"reserve_x", "reserveX", "token_x_vault", "vault_x", "tokenVaultX", "token_vault_x">>),
                        pick(pool.raw, <<"tokenVaultA", "vaultA", "token_vault_a", "baseVault", "vault_base", "tokenA_vault">>)),
     vaultY |-> VaultOr(pick(pool.raw, <<"reserve_y", "reserveY", "token_y_vault", "vault_y", "tokenVaultY", "token_vault_y">>),
                        pick(pool.raw, <<"tokenVaultB", "vaultB", "token_vault_b", "quoteVault", "vault_quote", "tokenB_vault">>))]

extractCachedReserveAmounts(pool) ==
    [xAmt |-> pick(pool.raw, <<"reserve_x_amount", "reserveXAmount", "xReserve", "liquidityX", "reserve_x_amount_true">>),
     yAmt |-> pick(pool.raw, <<"reserve_y_amount", "reserveYAmount", "yReserve", "liquidityY", "reserve_y_amount_true">>)]

\* normalizePool of the replacement engine: type and reserves
normalizePoolOfFile(rec) ==
    [rec EXCEPT !.type = detectTypeOfPool(rec),
                !.xReserve = Nullish(rec.xReserve, rec.raw.reserve_x_amount),
                !.yReserve = Nullish(rec.yReserve, rec.raw.reserve_y_amount)]

RECURSIVE loadPoolsFromFile(_)
loadPoolsFromFile(arr) ==
    IF arr = <<>> THEN <<>>
    ELSE (IF normalizePoolOfFile(Head(arr)).poolAddress # "" THEN <<normalizePoolOfFile(Head(arr))>> ELSE <<>>)
         \o loadPoolsFromFile(Tail(arr))

\* WithReserves with the cached amounts, when there are any, written in place of
\* the values handed over
WithReservesCacheFirst(pool, x, y, source) ==
    IF extractCachedReserveAmounts(pool).xAmt # Undefined /\ extractCachedReserveAmounts(pool).yAmt # Undefined
    THEN [xReserve |-> StringOf(extractCachedReserveAmounts(pool).xAmt), yReserve |-> StringOf(extractCachedReserveAmounts(pool).yAmt),
          liquidityX |-> StringOf(extractCachedReserveAmounts(pool).xAmt), liquidityY |-> StringOf(extractCachedReserveAmounts(pool).yAmt),
          reserveSource |-> "cache_amount"] @@ pool
    ELSE [xReserve |-> x, yReserve |-> y, liquidityX |-> x, liquidityY |-> y, reserveSource |-> source] @@ pool

\* p = { ...pool } with the reserves and their source written to it
WithReserves(pool, x, y, source) ==
    [xReserve |-> x, yReserve |-> y, liquidityX |-> x, liquidityY |-> y, reserveSource |-> source] @@ pool

WithoutReserves(pool) == [reserveSource |-> "none"] @@ pool

\* D(v).gt(0) on a number or a string of digits
PositiveAmount(v) ==
    \/ v.t = "number" /\ v.n > 0
    \/ v.t = "string" /\ AllDigits(v.s) /\ \E i \in 1..Len(v.s) : v.s[i] # "0"

\* the filter of loadAndEnrichPools
mathReady(p) ==
    IF p.poolAddress = "" THEN FALSE
    ELSE IF p.type \in {"cpmm", "dlmm"}
    THEN ToBoolean(p.xReserve) /\ ToBoolean(p.yReserve) /\ PositiveAmount(p.xReserve) /\ PositiveAmount(p.yReserve)
    ELSE p.type \in {"clmm", "whirlpool"}

----------------------------------------------------------------------------
(* loadAndEnrichPools on a pool file: loadPoolsFromFile, enrichPools one    *)
(* pool after the other, then the math-ready filter                         *)

FileLen == 2

Amount7 == Str(<<"7">>)

RawOfFile(vx, vy, ax, ay) == [reserve_x |-> vx, reserve_y |-> vy, reserve_x_amount |-> ax, reserve_y_amount |-> ay]

FileRecord(address, type, dex, top, raw) ==
    [poolAddress |-> address, type |-> type, dex |-> dex, xReserve |-> top[1], yReserve |-> top[2], raw |-> raw]

VaultFields == {<<VaultOfLetters, VaultOfLetters>>, <<VaultOfLetters, Undefined>>, <<Amount7, Amount7>>, <<Undefined, Undefined>>}

AmountFields == {<<Amount7, Num(3)>>, <<Num(0), Amount7>>, <<Amount7, Str(<<>>)>>, <<Undefined, Undefined>>}

TopFields == {<<Undefined, Undefined>>, <<Amount7, Amount7>>}

\* cpmm records with every mix of fields, and records of the other kinds without
\* vault addresses; one record has no address
FileRecords ==
    {FileRecord("p1", "cpmm", "raydium", top, RawOfFile(v[1], v[2], a[1], a[2])) : top \in TopFields, v \in VaultFields, a \in AmountFields}
    \cup {FileRecord("p2", ty[1], ty[2], top, RawOfFile(Undefined, Undefined, a[1], a[2])) :
             ty \in {<<"dlmm", "meteora">>, <<"", "meteora">>, <<"clmm", "raydium">>, <<"", "orca">>},
             top \in TopFields, a \in {<<Amount7, Num(3)>>, <<Undefined, Undefined>>}}
    \cup {FileRecord("", "cpmm", "raydium", <<Amount7, Amount7>>, RawOfFile(Undefined, Undefined, Undefined, Undefined))}

PoolFiles == UNION {[1..n -> FileRecords] : n \in 1..FileLen}

\* opts.sdkFallback: null, the wrapper loadAndEnrichPools builds round the adapter
\* (the adapter has no fetchReserves, so it answers null), or a caller's function
SdkFallbacks == {"null", "wrapper", "function"}

VaultBalances == {Undefined, BigIntOf(0), BigIntOf(7)}

\* source is the name the function gives itself, "" when it gives none
NoAnswer == [isNull |-> TRUE, xReserve |-> Undefined, yReserve |-> Undefined, source |-> ""]

SdkAnswers ==
    {NoAnswer} \cup
    {[isNull |-> FALSE, xReserve |-> x, yReserve |-> y, source |-> src] :
        x \in {Undefined, Num(0), Num(5), Amount7}, y \in {Undefined, Amount7},
        src \in {"", "orca"}}

InitEnrich ==
    /\ poolFile \in PoolFiles
    /\ sdkFallback \in SdkFallbacks
    /\ loaded = <<>> /\ enriched = <<>> /\ consulted = <<>> /\ ready = <<>>
    /\ pc = "called"
    /\ LegIdle /\ EngineIdle /\ NormalizeIdle /\ ArbIdle /\ LibIdle

Current == [loaded[Len(enriched) + 1] EXCEPT !.type = detectTypeOfPool(loaded[Len(enriched) + 1])]

BothVaults == extractVaultAddresses(Current).vaultX # Undefined /\ extractVaultAddresses(Current).vaultY # Undefined

Asked(source, threw, x, y) ==
    [consulted EXCEPT ![Len(enriched) + 1] = Append(@, [source |-> source, threw |-> threw, x |-> x, y |-> y])]

\* out.push(p) and the next turn of the loop of enrichPools
Push(p) ==
    /\ enriched' = Append(enriched, p)
    /\ pc' = IF Len(enriched) + 1 < Len(loaded) THEN "vault" ELSE "enriched"

LoadPools ==
    /\ pc = "called"
    /\ loaded' = loadPoolsFromFile(poolFile)
    /\ consulted' = [i \in 1..Len(loadPoolsFromFile(poolFile)) |-> <<>>]
    /\ pc' = IF loadPoolsFromFile(poolFile) = <<>> THEN "enriched" ELSE "vault"
    /\ UNCHANGED <<legIn, legOut, pools, opts, triples, next, results, status, rawPool, normalized, arbVars, libVars, poolFile, sdkFallback, enriched, ready>>

\* if (vaultX && vaultY) is false
SkipVault ==
    /\ pc = "vault"
    /\ ~BothVaults
    /\ pc' = "cache"
    /\ UNCHANGED <<legIn, legOut, pools, opts, triples, next, results, status, rawPool, normalized, arbVars, libVars, poolFile, sdkFallback, loaded, enriched, consulted, ready>>

VaultYields ==
    /\ pc = "vault"
    /\ BothVaults
    /\ \E xBI \in VaultBalances \ {Undefined}, yBI \in VaultBalances \ {Undefined} :
          /\ ToBoolean(toStrBigInt(xBI)) /\ ToBoolean(toStrBigInt(yBI))
          /\ consulted' = Asked("vault", FALSE, xBI, yBI)
          /\ Push(WithReserves(Current, toStrBigInt(xBI), toStrBigInt(yBI), "vault"))
    /\ UNCHANGED <<legIn, legOut, pools, opts, triples, next, results, status, rawPool, normalized, arbVars, libVars, poolFile, sdkFallback, loaded, ready>>

\* a balance is missing, or fetchVaultBalances threw
VaultFails ==
    /\ pc = "vault"
    /\ BothVaults
    /\ \/ \E xBI \in VaultBalances, yBI \in VaultBalances :
             /\ ~(ToBoolean(toStrBigInt(xBI)) /\ ToBoolean(toStrBigInt(yBI)))
             /\ consulted' = Asked("vault", FALSE, xBI, yBI)
       \/ consulted' = Asked("vault", TRUE, Undefined, Undefined)
    /\ pc' = "cache"
    /\ UNCHANGED <<legIn, legOut, pools, opts, triples, next, results, status, rawPool, normalized, arbVars, libVars, poolFile, sdkFallback, loaded, enriched, ready>>

CacheYields ==
    /\ pc = "cache"
    /\ extractCachedReserveAmounts(Current).xAmt # Undefined
    /\ extractCachedReserveAmounts(Current).yAmt # Undefined
    /\ consulted' = Asked("cache_amount", FALSE, extractCachedReserveAmounts(Current).xAmt, extractCachedReserveAmounts(Current).yAmt)
    /\ Push(WithReserves(Current, StringOf(extractCachedReserveAmounts(Current).xAmt), StringOf(extractCachedReserveAmounts(Current).yAmt), "cache_amount"))
    /\ UNCHANGED <<legIn, legOut, pools, opts, triples, next, results, status, rawPool, normalized, arbVars, libVars, poolFile, sdkFallback, loaded, ready>>

CacheMisses ==
    /\ pc = "cache"
    /\ extractCachedReserveAmounts(Current).xAmt = Undefined \/ extractCachedReserveAmounts(Current).yAmt = Undefined
    /\ consulted' = Asked("cache_amount", FALSE, extractCachedReserveAmounts(Current).xAmt, extractCachedReserveAmounts(Current).yAmt)
    /\ pc' = "sdk"
    /\ UNCHANGED <<legIn, legOut, pools, opts, triples, next, results, status, rawPool, normalized, arbVars, libVars, poolFile, sdkFallback, loaded, enriched, ready>>

\* opts.sdkFallback is not a function
NoSdk ==
    /\ pc = "sdk"
    /\ sdkFallback = "null"
    /\ Push(WithoutReserves(Current))
    /\ UNCHANGED <<legIn, legOut, pools, opts, triples, next, results, status, rawPool, normalized, arbVars, libVars, poolFile, sdkFallback, loaded, consulted, ready>>

SdkYields ==
    /\ pc = "sdk"
    /\ sdkFallback = "function"
    /\ \E r \in SdkAnswers :
          /\ ~r.isNull /\ ToBoolean(r.xReserve) /\ ToBoolean(r.yReserve)
          /\ consulted' = Asked("sdk", FALSE, r.xReserve, r.yReserve)
          /\ Push(WithReserves(Current, StringOf(r.xReserve), StringOf(r.yReserve), IF r.source # "" THEN r.source ELSE "sdk"))
    /\ UNCHANGED <<legIn, legOut, pools, opts, triples, next, results, status, rawPool, normalized, arbVars, libVars, poolFile, sdkFallback, loaded, ready>>

\* the function answered null or without both reserves, or it threw
SdkFails ==
    /\ pc = "sdk"
    /\ sdkFallback \in {"wrapper", "function"}
    /\ \/ \E r \in SdkAnswers :
             /\ sdkFallback = "wrapper" => r.isNull
             /\ ~(~r.isNull /\ ToBoolean(r.xReserve) /\ ToBoolean(r.yReserve))
             /\ consulted' = Asked("sdk", FALSE, r.xReserve, r.yReserve)
       \/ sdkFallback = "function" /\ consulted' = Asked("sdk", TRUE, Undefined, Undefined)
    /\ Push(WithoutReserves(Current))
    /\ UNCHANGED <<legIn, legOut, pools, opts, triples, next, results, status, rawPool, normalized, arbVars, libVars, poolFile, sdkFallback, loaded, ready>>

\* the filter and the return of loadAndEnrichPools; a caller of enrichPools with a
\* function of its own ends with the enriched pools
FilterReady ==
    /\ pc = "enriched"
    /\ sdkFallback \in {"null", "wrapper"}
    /\ ready' = SelectSeq(enriched, mathReady)
    /\ pc' = "returned"
    /\ UNCHANGED <<legIn, legOut, pools, opts, triples, next, results, status, rawPool, normalized, arbVars, libVars, poolFile, sdkFallback, loaded, enriched, consulted>>

NextEnrich ==
    \/ LoadPools \/ SkipVault \/ VaultYields \/ VaultFails \/ CacheYields \/ CacheMisses
    \/ NoSdk \/ SdkYields \/ SdkFails \/ FilterReady

SpecEnrich == InitEnrich /\ [][NextEnrich]_vars

----------------------------------------------------------------------------
(* Properties of one leg                                                   *)

LegDone == legOut.state = "returned" /\ legOut.res.ok

\* the decimals of the leg's output mint and the human reserve of its output side
LegOutDecimals ==
    IF legIn.inputMint = legIn.pool.mintX THEN legIn.pool.yDecimals
    ELSE legIn.pool.xDecimals

LegOutReserveHuman ==
    IF legIn.inputMint = legIn.pool.mintX
    THEN DScale10(legIn.pool.yReserveAtomic.v, -legIn.pool.yDecimals)
    ELSE DScale10(legIn.pool.xReserveAtomic.v, -legIn.pool.xDecimals)

\* C8: the fee fraction that the swap math applies to a leg is in [0, 1),
\* whatever raw fee the pool carries.
C8_FeeFractionBelowOne ==
    LegDone => DGe(legOut.res.sim.fee, Zero) /\ DLt(legOut.res.sim.fee, DInt(1))

\* C9: dy_atomic of a leg is an integer with
\* 0 <= dy_atomic <= floor(dy_human * 10^out_decimals), out_decimals being the
\* decimals of the leg's output mint.
C9_DyAtomicIsFloor ==
    LegDone =>
        /\ legOut.res.dyAtomic.d = 1 /\ legOut.res.dyAtomic.e = 0
        /\ legOut.res.dyAtomic.n >= 0
        /\ legOut.res.dyAtomic.n <= FloorInt(DScale10(legOut.res.sim.dy, LegOutDecimals))
        /\ legOut.res.sim.dyAtomic.n <= FloorInt(DScale10(legOut.res.sim.dy, LegOutDecimals))

\* a y -> x leg of a pool whose decimals differ, whose output is positive and is
\* not a whole number of atomic units before the floor
C9_Witness ==
    /\ LegDone
    /\ legIn.inputMint = legIn.pool.mintY
    /\ legIn.pool.xDecimals # legIn.pool.yDecimals
    /\ legOut.res.dyAtomic.n > 0
    /\ DLt(legOut.res.dyAtomic, DScale10(legOut.res.sim.dy, LegOutDecimals))

\* C10: a CPMM swap with positive reserves and positive input returns
\* 0 < dy_human < y_human for any fee value the pool can carry.
C10_OutputWithinReserve ==
    LegDone =>
        /\ DGt(legOut.res.sim.dy, Zero)
        /\ DLt(legOut.res.sim.dy, LegOutReserveHuman)

----------------------------------------------------------------------------
(* Properties of findTriangularArbitrage                                   *)

Returned == status = "returned"

\* the decimals of the mint a leg of the cycle r pays out
OutDecimalsOfLeg(r, k) ==
    IF k = 1 THEN 6 ELSE IF k = 2 THEN tokenDecimalsByMint(r.tokenC, 6)
    ELSE tokenDecimalsByMint(r.tokenA, 6)

\* the amount a leg hands on is the floor of the swap's own output
HandsOnSwapOutput(r, k, leg) ==
    leg.outputAtomic = DInt(FloorInt(DScale10(leg.sim.dy, OutDecimalsOfLeg(r, k))))

ChainedOnAtomicAmounts(r) ==
    /\ r.inputAtomic = DInt(FloorInt(opts.inputAmountAtomic.v))
    /\ r.legBreakdowns.leg1.sim.dxAtomic = r.inputAtomic
    /\ r.legBreakdowns.leg2.sim.dxAtomic = r.legBreakdowns.leg1.outputAtomic
    /\ r.legBreakdowns.leg3.sim.dxAtomic = r.legBreakdowns.leg2.outputAtomic
    /\ r.outputAtomic = r.legBreakdowns.leg3.outputAtomic
    /\ HandsOnSwapOutput(r, 1, r.legBreakdowns.leg1)
    /\ HandsOnSwapOutput(r, 2, r.legBreakdowns.leg2)
    /\ HandsOnSwapOutput(r, 3, r.legBreakdowns.leg3)

\* C1: in every emitted cycle leg 1 is simulated on floor(input_atomic), leg 2 on
\* leg 1's dy_atomic, leg 3 on leg 2's dy_atomic, output_atomic is leg 3's
\* dy_atomic, and each dy_atomic is the floor of the swap output with no
\* analytical cost taken off.
C1_LegsChained == \A i \in 1..Len(results) : ChainedOnAtomicAmounts(results[i])

\* a returned cycle, from a fractional input amount, whose three legs each carry
\* a positive analytical cost
C1_Witness ==
    /\ Returned
    /\ opts.inputAmountAtomic.v.d # 1
    /\ \E i \in 1..Len(results) :
          /\ results[i].legBreakdowns.leg1.cost.totalCostTokenOutAtomic.n > 0
          /\ results[i].legBreakdowns.leg2.cost.totalCostTokenOutAtomic.n > 0
          /\ results[i].legBreakdowns.leg3.cost.totalCostTokenOutAtomic.n > 0

\* C2: findTriangularArbitrage never rejects: whatever pools it is given, it
\* drops the affected triples and returns a list.
C2_NeverRejects == status # "rejected"

ProfitPctOf(r) ==
    DMul(DDiv(DSub(r.outputAtomic, r.inputAtomic), r.inputAtomic), DInt(100))

DiscardedBefore(i) == i < next /\ TripleOutcome(triples[i], opts).kind = "suspicious"

C4_PassesIffNetAtLeastThreshold ==
    \A i \in 1..Len(results) :
        /\ results[i].netAfterCostsPct
              = DMul(DDiv(results[i].netAfterCostsAtomic, results[i].inputAtomic), DInt(100))
        /\ results[i].passes <=> DGe(results[i].netAfterCostsPct, opts.minProfitPct)

\* the returned list holds a cycle that passes with its net exactly at the
\* threshold, and a cycle that does not pass although its profit before costs
\* is above the threshold
C4_Witness ==
    /\ Returned
    /\ \E i, j \in 1..Len(results) :
          /\ results[i].passes
          /\ results[i].netAfterCostsPct = opts.minProfitPct
          /\ ~results[j].passes
          /\ DGt(results[j].profitPct, opts.minProfitPct)

\* the pool ids of the catalogue have one length, so the concatenation of three
\* ids is ordered as the triple of their places in the sorted list of ids
PoolIdsSorted == <<"ab1", "ab2", "ab3", "ab4", "bc1", "bc2", "bc3", "bc4", "ca1", "ca2">>

PlaceOf(id) == CHOOSE k \in 1..Len(PoolIdsSorted) : PoolIdsSorted[k] = id

IdsBefore(p, q) ==
    \/ PlaceOf(p[1]) < PlaceOf(q[1])
    \/ p[1] = q[1] /\ PlaceOf(p[2]) < PlaceOf(q[2])
    \/ p[1] = q[1] /\ p[2] = q[2] /\ PlaceOf(p[3]) <= PlaceOf(q[3])

SortedByNet ==
    \A i, j \in 1..Len(results) :
        i < j => DGe(results[i].netAfterCostsPct, results[j].netAfterCostsPct)

\* C5: the returned list is sorted by net_after_costs_pct, descending, and cycles
\* of equal net_after_costs_pct are in lexicographic order of their three
\* concatenated pool ids.
C5_RankedWithTieBreak ==
    Returned =>
        /\ SortedByNet
        /\ \A i, j \in 1..Len(results) :
              (i < j /\ results[i].netAfterCostsPct = results[j].netAfterCostsPct)
                  => IdsBefore(results[i].pools, results[j].pools)

\* the routes of the triples that the loops would visit, cap or no cap
Simulates(i) == RouteOutcome(triples[i], opts).kind = "cycle"

LeftOut(i) == \A k \in 1..Len(results) : results[k].pools # RouteOutcome(triples[i], opts).cycle.pools

\* C6: at most max_routes cycles are returned, and the cap cuts the ranked list:
\* no triple whose simulation succeeds is left out while a returned cycle has a
\* lower net_after_costs_pct.
C6_CapCutsRankedList ==
    Returned =>
        /\ Len(results) <= opts.maxRoutes
        /\ \A i \in 1..Len(triples) :
              (Simulates(i) /\ LeftOut(i)) =>
                  \A k \in 1..Len(results) :
                      DLe(RouteOutcome(triples[i], opts).cycle.netAfterCostsPct,
                          results[k].netAfterCostsPct)

----------------------------------------------------------------------------
(* Properties of normalizePool                                             *)

Base58Chars ==
    {"1", "2", "3", "4", "5", "6", "7", "8", "9", "A", "B", "C", "D", "E", "F", "G", "H",
     "J", "K", "L", "M", "N", "P", "Q", "R", "S", "T", "U", "V", "W", "X", "Y", "Z", "a",
     "b", "c", "d", "e", "f", "g", "h", "i", "j", "k", "m", "n", "o", "p", "q", "r", "s",
     "t", "u", "v", "w", "x", "y", "z"}

\* a string of 32 to 44 characters of the base58 alphabet
Base58Shaped(v) ==
    /\ v.t = "string"
    /\ Len(v.s) >= 32 /\ Len(v.s) <= 44
    /\ \A i \in 1..Len(v.s) : v.s[i] \in Base58Chars

PoolNormalized == status \in {"normalized", "dropped", "loaded"} /\ ~normalized.isNull

\* C7: no reserve of a normalized pool is taken from a value that is a string of
\* 32 to 44 base58 characters, under whichever field the value arrives, a string
\* of digits of that length included.
C7_NoReserveFromVaultAddress ==
    PoolNormalized =>
        /\ ~normalized.xReserveAtomic.isNull =>
              ~Base58Shaped(FindNumeric(candidatesX(rawPool)))
        /\ ~normalized.yReserveAtomic.isNull =>
              ~Base58Shaped(FindNumeric(candidatesY(rawPool)))

----------------------------------------------------------------------------
(* Properties of a round trip                                              *)

----------------------------------------------------------------------------
(* Properties of the sanity filter                                         *)

SolUsdcMedianOfCall == computeSolUsdcMedianPrice(eligible(pools, opts))

HasSolPrice(p) ==
    /\ isSolUsdcPair(p)
    /\ p.xReserveAtomic.k = "num" /\ DGt(p.xReserveAtomic.v, Zero)
    /\ p.yReserveAtomic.k = "num" /\ DGt(p.yReserveAtomic.v, Zero)

\* USDC per SOL, from the human reserves of the pool
SolPrice(p) ==
    IF p.mintX = WSOL_MINT
    THEN DDiv(DScale10(p.yReserveAtomic.v, -p.yDecimals), DScale10(p.xReserveAtomic.v, -p.xDecimals))
    ELSE DDiv(DScale10(p.xReserveAtomic.v, -p.xDecimals), DScale10(p.yReserveAtomic.v, -p.yDecimals))

OutsideBand(p) ==
    /\ HasSolPrice(p)
    /\ \/ DLt(DMul(SolPrice(p), DInt(2)), SolUsdcMedianOfCall.v)
       \/ DGt(SolPrice(p), DMul(SolUsdcMedianOfCall.v, DInt(2)))

InsideBand(p) == HasSolPrice(p) /\ ~OutsideBand(p)

PoolOfId(id) == CHOOSE q \in {pools[k] : k \in 1..Len(pools)} : q.poolAddress = id

----------------------------------------------------------------------------
(* Properties of the enumeration                                           *)

Trades(p, m1, m2) ==
    \/ p.mintX = m1 /\ p.mintY = m2
    \/ p.mintX = m2 /\ p.mintY = m1

\* the pools of one edge, in the order of the list the index is built from
EdgePools(m1, m2) == SelectSeq(poolsFiltered(pools, opts), LAMBDA p : Trades(p, m1, m2))

FirstOfEdge(m1, m2) ==
    {EdgePools(m1, m2)[k] : k \in 1..(IF Len(EdgePools(m1, m2)) < opts.maxPoolsPerLeg THEN Len(EdgePools(m1, m2)) ELSE opts.maxPoolsPerLeg)}

MintsOfCall == {pools[k].mintX : k \in 1..Len(pools)} \cup {pools[k].mintY : k \in 1..Len(pools)}

\* the loops reached the triple: it is behind the position of the search, or it is
\* the triple the search stopped on
Simulated(B, pAB, pBC, pCA) ==
    \E i \in 1..Len(triples) :
        i <= next /\ triples[i] = [B |-> B, pAB |-> pAB, pBC |-> pBC, pCA |-> pCA]

CycleOnEdges(r) ==
    /\ r.tokenB # r.tokenA /\ r.tokenB # r.tokenC
    /\ EdgePools(r.tokenA, r.tokenB) # <<>>
    /\ EdgePools(r.tokenB, r.tokenC) # <<>>
    /\ Trades(PoolOfId(r.pools[1]), r.tokenA, r.tokenB)
    /\ Trades(PoolOfId(r.pools[2]), r.tokenB, r.tokenC)
    /\ Trades(PoolOfId(r.pools[3]), r.tokenC, r.tokenA)

AllTriplesSimulated ==
    \A B \in MintsOfCall \ {opts.tokenA, opts.tokenC} :
        \A pAB \in FirstOfEdge(opts.tokenA, B) : \A pBC \in FirstOfEdge(B, opts.tokenC) :
            \A pCA \in FirstOfEdge(opts.tokenC, opts.tokenA) : Simulated(B, pAB, pBC, pCA)

\* C13: every emitted cycle goes A -> B -> C -> A with B different from A and C and
\* joined to both by a pool, its three pools trading {A,B}, {B,C} and {C,A}; and
\* when the search is over every triple made of the first maxPoolsPerLeg pools of
\* the three edges has been simulated.
C13_EnumerationShape ==
    (status \in {"returned", "rejected"}) =>
        /\ \A i \in 1..Len(results) : CycleOnEdges(results[i])
        /\ AllTriplesSimulated

\* the same for the searches that return
C13_ShapeOfReturnedSearch ==
    Returned => ((\A i \in 1..Len(results) : CycleOnEdges(results[i])) /\ AllTriplesSimulated)

----------------------------------------------------------------------------
(* Properties of enrichPool and loadAndEnrichPools                         *)

AddressShaped(v) == v.t = "string" /\ Len(v.s) >= 32

\* the sources pool i has, in the order of the contract
SourcesOf(i) ==
    (IF AddressShaped(loaded[i].raw.reserve_x) /\ AddressShaped(loaded[i].raw.reserve_y) THEN <<"vault">> ELSE <<>>)
    \o <<"cache_amount">>
    \o (IF sdkFallback = "null" THEN <<>> ELSE <<"sdk">>)

\* the source gave both values
Yielded(e) ==
    /\ ~e.threw
    /\ IF e.source = "sdk" THEN ToBoolean(e.x) /\ ToBoolean(e.y) ELSE e.x # Undefined /\ e.y # Undefined

AskedInOrder(i) ==
    /\ Len(consulted[i]) <= Len(SourcesOf(i))
    /\ \A j \in 1..Len(consulted[i]) : consulted[i][j].source = SourcesOf(i)[j]
    /\ \A j \in 1..(Len(consulted[i]) - 1) : ~Yielded(consulted[i][j])

LastAsked(i) == consulted[i][Len(consulted[i])]

NamesSource(p, e) ==
    /\ p.xReserve = StringOf(e.x) /\ p.yReserve = StringOf(e.y)
    /\ IF e.source = "sdk"
       THEN p.reserveSource \notin {"", "none", "vault", "cache_amount"}
       ELSE p.reserveSource = e.source

FromFirstYield(i) ==
    IF Yielded(LastAsked(i)) THEN NamesSource(enriched[i], LastAsked(i))
    ELSE /\ enriched[i].reserveSource = "none"
         /\ Len(consulted[i]) = Len(SourcesOf(i))

\* C14: enrichPool asks the vault balances (only when both vault addresses are
\* there), then the cached amounts, then the SDK fallback, stops at the first
\* source that gives both values, records that source as the reserve source, and
\* records 'none' exactly when every source failed.
C14_FirstSourceWins ==
    /\ \A i \in 1..Len(consulted) : AskedInOrder(i)
    /\ \A i \in 1..Len(enriched) :
          /\ consulted[i] # <<>>
          /\ FromFirstYield(i)
          /\ enriched[i].reserveSource = "none" <=> \A j \in 1..Len(consulted[i]) : ~Yielded(consulted[i][j])

\* a pool whose vault balances failed, whose cached amounts were incomplete and
\* whose reserves came from the SDK fallback
C14_Witness ==
    \E i \in 1..Len(enriched) :
        /\ Len(consulted[i]) = 3
        /\ enriched[i].reserveSource = "sdk"
        /\ enriched[i].xReserve = Str(<<"5">>)

\* C15: no cpmm or dlmm pool whose reserve source is 'none' is among the pools
\* loadAndEnrichPools returns.
C15_NoSourceNotReady ==
    pc = "returned" =>
        \A i \in 1..Len(ready) :
            ready[i].type \in {"cpmm", "dlmm"} => ready[i].reserveSource # "none"

----------------------------------------------------------------------------
(* Properties of the pool kinds                                            *)

\* C16: the engine binds no quoter, so a leg through a pool of kind clmm or
\* whirlpool is never simulated: simulateLeg gives no ok result for it, no output
\* of the constant-product formula on its reserves.
C16_ClmmNeverQuotedOnReserves ==
    legIn.pool.poolType \in {"clmm", "whirlpool"} =>
        /\ legOut.state \notin {"forward", "back"}
        /\ ~legOut.res.ok

----------------------------------------------------------------------------
(* Properties of the analytical cost of a leg                              *)

LegInDecimals ==
    IF legIn.inputMint = legIn.pool.mintX THEN legIn.pool.xDecimals
    ELSE legIn.pool.yDecimals

LegInReserveHuman ==
    IF legIn.inputMint = legIn.pool.mintX
    THEN DScale10(legIn.pool.xReserveAtomic.v, -legIn.pool.xDecimals)
    ELSE DScale10(legIn.pool.yReserveAtomic.v, -legIn.pool.yDecimals)

LegDxHuman == DScale10(DFloor(legIn.dxAtomic), -LegInDecimals)

LegMidPrice == DDiv(LegOutReserveHuman, LegInReserveHuman)

LegFeeCostOut == DMul(DMul(LegDxHuman, legOut.res.sim.feeRate), LegMidPrice)

\* dx_human * mid_price - fee_cost_out - dy_human, dy_human being the dy of processSwap
LegSlippageBeforeMax ==
    DSub(DSub(DMul(LegDxHuman, LegMidPrice), LegFeeCostOut), legOut.res.sim.dy)

\* C17: the cost of a leg is fee_cost_out = dx_human * fee_fraction * mid_price,
\* slippage_cost_out = max(0, dx_human * mid_price - fee_cost_out - dy_human) >= 0
\* and their sum, dy_human being the output processSwap returns for the leg.
C17_AnalyticalCost ==
    LegDone =>
        /\ legOut.res.cost.ok
        /\ DEq(legOut.res.cost.feeCostOut, LegFeeCostOut)
        /\ DEq(legOut.res.cost.slippageCostOut, IF DLt(LegSlippageBeforeMax, Zero) THEN Zero ELSE LegSlippageBeforeMax)
        /\ DGe(legOut.res.cost.slippageCostOut, Zero)
        /\ DEq(legOut.res.cost.totalCostTokenOutHuman, DAdd(legOut.res.cost.feeCostOut, legOut.res.cost.slippageCostOut))

\* a leg with a fee of 1 % whose fee cost and slippage cost are both positive
C17_Witness ==
    /\ LegDone
    /\ legOut.res.sim.feeRate = Dec(1, 100, 0)
    /\ DGt(legOut.res.cost.feeCostOut, Zero)
    /\ DGt(legOut.res.cost.slippageCostOut, Zero)

----------------------------------------------------------------------------
(* Properties of the cost of a cycle                                       *)

\* the total cost of leg k in its output token, from the atomic amount of the record
LegCostOut(r, k, leg) == DScale10(leg.cost.totalCostTokenOutAtomic, -OutDecimalsOfLeg(r, k))

\* leg 1's cost over the mid prices of legs 2 and 3 plus leg 2's cost over the mid
\* price of leg 3, in A
ConvertedCostA(r, c1, c2) ==
    DAdd(DMul(DMul(c1, r.legBreakdowns.leg2.sim.midPrice), r.legBreakdowns.leg3.sim.midPrice),
         DMul(c2, r.legBreakdowns.leg3.sim.midPrice))

\* in atomic units of A: the converted costs of legs 1 and 2, floored, and the
\* atomic cost of leg 3
CycleCostAtomicA(r) ==
    DAdd(DFloor(DScale10(ConvertedCostA(r, LegCostOut(r, 1, r.legBreakdowns.leg1), LegCostOut(r, 2, r.legBreakdowns.leg2)), tokenDecimalsByMint(r.tokenA, 9))),
         r.legBreakdowns.leg3.cost.totalCostTokenOutAtomic)

\* the atomic cost of leg k is its total cost in whole atomic units of its output token
CostInWholeUnits(r, k, leg) ==
    /\ leg.cost.ok
    /\ DEq(leg.cost.totalCostTokenOutAtomic, DFloor(DScale10(leg.cost.totalCostTokenOutHuman, OutDecimalsOfLeg(r, k))))

CostAggregated(r) ==
    /\ CostInWholeUnits(r, 1, r.legBreakdowns.leg1)
    /\ CostInWholeUnits(r, 2, r.legBreakdowns.leg2)
    /\ CostInWholeUnits(r, 3, r.legBreakdowns.leg3)
    /\ DEq(r.netAfterCostsAtomic, DSub(DSub(r.outputAtomic, r.inputAtomic), CycleCostAtomicA(r)))
    /\ DEq(r.netAfterCostsPct, DMul(DDiv(DSub(DSub(r.outputAtomic, r.inputAtomic), CycleCostAtomicA(r)), r.inputAtomic), DInt(100)))

Precision == 40

RECURSIVE BigOf(_)
BigOf(k) == IF k = 0 THEN <<>> ELSE <<k % 1000>> \o BigOf(k \div 1000)

Limb(a, i) == IF i >= 1 /\ i <= Len(a) THEN a[i] ELSE 0

Larger(m, k) == IF m >= k THEN m ELSE k

Smaller(m, k) == IF m <= k THEN m ELSE k

\* the index of the highest limb that is not 0 (0 when there is none)
TopLimb(c) ==
    IF \A i \in 1 .. Len(c) : c[i] = 0
    THEN 0
    ELSE CHOOSE i \in 1 .. Len(c) : c[i] # 0 /\ \A j \in (i + 1) .. Len(c) : c[j] = 0

Trim(c) == SubSeq(c, 1, TopLimb(c))

\* one pass of carries (borrows, where a coefficient is negative)
CarryOnce(c) == <<>> \o [i \in 1 .. (Len(c) + 1) |-> (Limb(c, i) % 1000) + (Limb(c, i - 1) \div 1000)]

\* coefficients of a natural, of any size or sign, brought to limbs
RECURSIVE Carried(_)
Carried(c) ==
    IF \A i \in 1 .. Len(c) : c[i] >= 0 /\ c[i] < 1000
    THEN Trim(c)
    ELSE Carried(CarryOnce(c))

BigAdd(a, b) == Carried(<<>> \o [i \in 1 .. Larger(Len(a), Len(b)) |-> Limb(a, i) + Limb(b, i)])

\* a - b for a >= b
BigSub(a, b) == Carried(<<>> \o [i \in 1 .. Len(a) |-> Limb(a, i) - Limb(b, i)])

\* the sum of a[i] * b[k + 1 - i] for i in lo .. hi
RECURSIVE ConvSum(_, _, _, _, _)
ConvSum(a, b, k, lo, hi) ==
    IF lo = hi
    THEN a[lo] * b[k + 1 - lo]
    ELSE ConvSum(a, b, k, lo, (lo + hi) \div 2) + ConvSum(a, b, k, (lo + hi) \div 2 + 1, hi)

BigMul(a, b) ==
    IF a = <<>> \/ b = <<>>
    THEN <<>>
    ELSE Carried(<<>> \o [k \in 1 .. (Len(a) + Len(b) - 1) |->
                    ConvSum(a, b, k, Larger(1, k + 1 - Len(b)), Smaller(k, Len(a)))])

\* the highest limb at which a and b, of one length and not equal, differ
TopDifference(a, b) ==
    CHOOSE i \in 1 .. Len(a) : a[i] # b[i] /\ \A j \in (i + 1) .. Len(a) : a[j] = b[j]

BigCmp(a, b) ==
    IF Len(a) > Len(b) THEN 1
    ELSE IF Len(a) < Len(b) THEN -1
    ELSE IF a = b THEN 0
    ELSE IF a[TopDifference(a, b)] > b[TopDifference(a, b)] THEN 1
    ELSE -1

\* m * d * 1000^i for a limb d
Scaled(m, d, i) ==
    IF m = <<>> \/ d = 0
    THEN <<>>
    ELSE Carried(<<>> \o [j \in 1 .. (Len(m) + i) |-> IF j <= i THEN 0 ELSE m[j - i] * d])

\* the three limbs of a from position top + 1 down, read as one number
Window(a, top) == Limb(a, top + 1) * 1000000 + Limb(a, top) * 1000 + Limb(a, top - 1)

\* the limb d of the quotient at position i: d * m * 1000^i <= rem < (d + 1) * m * 1000^i,
\* looked for between the bounds that the leading limbs of rem and m give
QuotientLimbIn(rem, m, i, lo, hi) ==
    CHOOSE d \in lo .. Smaller(hi, 999) :
        /\ BigCmp(Scaled(m, d, i), rem) <= 0
        /\ BigCmp(Scaled(m, d + 1, i), rem) > 0

QuotientLimb(rem, m, i) ==
    QuotientLimbIn(rem, m, i,
        Window(rem, Len(m) + i) \div (Window(m, Len(m)) + 1),
        (Window(rem, Len(m) + i) + 1) \div Window(m, Len(m)))

\* long division, from the highest limb of the quotient down
RECURSIVE DivFrom(_, _, _, _)
RECURSIVE DivWith(_, _, _, _, _)
DivFrom(rem, m, i, q) ==
    IF i < 0 THEN Trim(q) ELSE DivWith(rem, m, i, q, QuotientLimb(rem, m, i))

DivWith(rem, m, i, q, d) == DivFrom(BigSub(rem, Scaled(m, d, i)), m, i - 1, <<d>> \o q)

\* the whole part of a / m, for m not 0
BigDiv(a, m) ==
    IF BigCmp(a, m) < 0 THEN <<>> ELSE DivFrom(a, m, Len(a) - Len(m), <<>>)

TenTo(r) == IF r = 0 THEN 1 ELSE IF r = 1 THEN 10 ELSE IF r = 2 THEN 100 ELSE 1000

\* the number of decimal digits of c
Digits(c) ==
    IF c = <<>> THEN 0
    ELSE 3 * (Len(c) - 1) + (IF c[Len(c)] >= 100 THEN 3 ELSE IF c[Len(c)] >= 10 THEN 2 ELSE 1)

\* the number of zero digits c ends with, for c not 0
TrailingLimb(c) == CHOOSE i \in 1 .. Len(c) : c[i] # 0 /\ \A j \in 1 .. (i - 1) : c[j] = 0

TrailingZeros(c) ==
    3 * (TrailingLimb(c) - 1)
        + (IF c[TrailingLimb(c)] % 10 # 0 THEN 0 ELSE IF c[TrailingLimb(c)] % 100 # 0 THEN 1 ELSE 2)

\* c without its last 3 * s + r digits
DropLimbs(c, s, r) ==
    Trim(<<>> \o [i \in 1 .. (Len(c) - s) |->
            (c[i + s] \div TenTo(r)) + (Limb(c, i + s + 1) % TenTo(r)) * TenTo(3 - r)])

DropDigits(c, k) == IF k = 0 THEN c ELSE DropLimbs(c, k \div 3, k % 3)

\* c * 10^k
PushLimbs(c, s, r) ==
    Carried(<<>> \o [i \in 1 .. (Len(c) + s) |-> IF i <= s THEN 0 ELSE c[i - s] * TenTo(r)])

TimesTenTo(c, k) == IF c = <<>> \/ k = 0 THEN c ELSE PushLimbs(c, k \div 3, k % 3)

\* the Decimal that decimal.js keeps for c * 10^e: no trailing zero digit
Normal(neg, c, e) ==
    IF c = <<>>
    THEN [neg |-> FALSE, c |-> <<>>, e |-> 0]
    ELSE [neg |-> neg, c |-> DropDigits(c, TrailingZeros(c)), e |-> e + TrailingZeros(c)]

\* the result of an operation: the first Precision digits, the rest cut off
\* (ROUND_DOWN rounds towards zero)
Rounded(neg, c, e) ==
    IF Digits(c) > Precision
    THEN Normal(neg, DropDigits(c, Digits(c) - Precision), e + (Digits(c) - Precision))
    ELSE Normal(neg, c, e)

ExponentOf(d) == CHOOSE k \in 0 .. 9 : 10 ^ k = d

\* PrecisionMath.toDecimal of the decimal string that writes n / d, d a power of 10
PrecisionMath_toDecimal(n, d) == Normal(FALSE, BigOf(n), 0 - ExponentOf(d))

SumOver(xneg, xc, yneg, yc, e) ==
    IF xneg = yneg THEN Rounded(xneg, BigAdd(xc, yc), e)
    ELSE IF BigCmp(xc, yc) >= 0 THEN Rounded(xneg, BigSub(xc, yc), e)
    ELSE Rounded(yneg, BigSub(yc, xc), e)

PrecisionMath_add(x, y) ==
    IF x.c = <<>> THEN y
    ELSE IF y.c = <<>> THEN x
    ELSE SumOver(x.neg, TimesTenTo(x.c, x.e - Smaller(x.e, y.e)),
                 y.neg, TimesTenTo(y.c, y.e - Smaller(x.e, y.e)), Smaller(x.e, y.e))

Negated(y) == [y EXCEPT !.neg = (y.c # <<>>) /\ ~y.neg]

PrecisionMath_sub(x, y) == PrecisionMath_add(x, Negated(y))

PrecisionMath_mul(x, y) == Rounded(x.neg # y.neg, BigMul(x.c, y.c), x.e + y.e)

\* the quotient to Precision digits and more, cut off by Rounded; the divisor is
\* never 0 where the calculator divides
QuotientShifted(x, y, k) ==
    Rounded(x.neg # y.neg, BigDiv(TimesTenTo(x.c, k), y.c), x.e - y.e - k)

PrecisionMath_div(x, y) ==
    IF x.c = <<>> THEN x ELSE QuotientShifted(x, y, Precision + Digits(y.c) - Digits(x.c))

PrecisionMath_abs(x) == [x EXCEPT !.neg = FALSE]

SignOf(x) == IF x.c = <<>> THEN 0 ELSE IF x.neg THEN -1 ELSE 1

PrecisionMath_compare(x, y) == SignOf(PrecisionMath_sub(x, y))

PrecisionMath_min(x, y) == IF PrecisionMath_compare(x, y) <= 0 THEN x ELSE y

\* throw new Error(message)
Thrown(message) == [threw |-> TRUE, message |-> message]

AmmSwapResult(amountIn, spotPrice, amountOut, fee) ==
    [threw |-> FALSE,
     amountOut |-> amountOut,
     priceImpact |-> PrecisionMath_abs(PrecisionMath_div(
                        PrecisionMath_sub(PrecisionMath_div(amountOut, amountIn), spotPrice),
                        spotPrice)),
     effectivePrice |-> PrecisionMath_div(amountOut, amountIn),
     fee |-> fee]

CpmmOutput(reserveIn, reserveOut, amountInAfterFee) ==
    PrecisionMath_div(PrecisionMath_mul(amountInAfterFee, reserveOut),
                      PrecisionMath_add(reserveIn, amountInAfterFee))

CpmmSwapWithFee(amountIn, reserveIn, reserveOut, fee) ==
    AmmSwapResult(amountIn, PrecisionMath_div(reserveOut, reserveIn),
                  CpmmOutput(reserveIn, reserveOut, PrecisionMath_sub(amountIn, fee)), fee)

\* the swap with the fee recorded but never taken off the input
calculateCpmmSwap_feeNotDeducted(amountIn, reserveIn, reserveOut, feeRate) ==
    IF SignOf(amountIn) <= 0
    THEN [threw |-> TRUE, message |-> "Amount in must be positive"]
    ELSE IF SignOf(reserveIn) <= 0 \/ SignOf(reserveOut) <= 0
    THEN [threw |-> TRUE, message |-> "Reserves must be positive"]
    ELSE [threw |-> FALSE,
          amountOut |-> PrecisionMath_div(PrecisionMath_mul(amountIn, reserveOut),
                                          PrecisionMath_add(reserveIn, amountIn)),
          priceImpact |-> PrecisionMath_abs(PrecisionMath_div(
                             PrecisionMath_sub(
                                PrecisionMath_div(
                                   PrecisionMath_div(PrecisionMath_mul(amountIn, reserveOut),
                                                     PrecisionMath_add(reserveIn, amountIn)),
                                   amountIn),
                                PrecisionMath_div(reserveOut, reserveIn)),
                             PrecisionMath_div(reserveOut, reserveIn))),
          effectivePrice |-> PrecisionMath_div(
                                PrecisionMath_div(PrecisionMath_mul(amountIn, reserveOut),
                                                  PrecisionMath_add(reserveIn, amountIn)),
                                amountIn),
          fee |-> PrecisionMath_mul(amountIn, feeRate)]

\* the swap with the reserves checked before the amount
calculateCpmmSwap_reservesFirst(amountIn, reserveIn, reserveOut, feeRate) ==
    IF SignOf(reserveIn) <= 0 \/ SignOf(reserveOut) <= 0
    THEN [threw |-> TRUE, message |-> "Reserves must be positive"]
    ELSE IF SignOf(amountIn) <= 0
    THEN [threw |-> TRUE, message |-> "Amount in must be positive"]
    ELSE CpmmSwapWithFee(amountIn, reserveIn, reserveOut, PrecisionMath_mul(amountIn, feeRate))

calculateCpmmSwap(amountIn, reserveIn, reserveOut, feeRate) ==
    IF PrecisionMath_compare(amountIn, PrecisionMath_toDecimal(0, 1)) <= 0
    THEN Thrown("Amount in must be positive")
    ELSE IF \/ PrecisionMath_compare(reserveIn, PrecisionMath_toDecimal(0, 1)) <= 0
            \/ PrecisionMath_compare(reserveOut, PrecisionMath_toDecimal(0, 1)) <= 0
    THEN Thrown("Reserves must be positive")
    ELSE CpmmSwapWithFee(amountIn, reserveIn, reserveOut, PrecisionMath_mul(amountIn, feeRate))

\* TriangularArbitrage.calculateSwap, for a pool of protocol RAYDIUM_CPMM
calculateSwap(pool, amountIn) ==
    calculateCpmmSwap(amountIn, pool.reserveA, pool.reserveB, pool.feeRate)

SwapLeg(pool, amountIn, swap) ==
    [pool |-> pool.poolAddress, tokenIn |-> pool.tokenA, tokenOut |-> pool.tokenB,
     amountIn |-> amountIn, amountOut |-> swap.amountOut,
     priceImpact |-> swap.priceImpact, fee |-> swap.fee]

ArbitrageOpportunity(this, pool1, pool2, pool3, inputAmount, swap1, swap2, swap3, totalPriceImpact, netProfit, profitPercentage) ==
    [threw |-> FALSE,
     route |-> <<SwapLeg(pool1, inputAmount, swap1),
                 SwapLeg(pool2, swap1.amountOut, swap2),
                 SwapLeg(pool3, swap2.amountOut, swap3)>>,
     inputAmount |-> inputAmount,
     outputAmount |-> swap3.amountOut,
     netProfit |-> netProfit,
     profitPercentage |-> profitPercentage,
     totalFees |-> PrecisionMath_add(swap1.fee, PrecisionMath_add(swap2.fee, swap3.fee)),
     totalPriceImpact |-> totalPriceImpact,
     estimatedGasCost |-> this.estimatedGasCost,
     isProfitable |->
        /\ PrecisionMath_compare(netProfit, PrecisionMath_toDecimal(0, 1)) > 0
        /\ PrecisionMath_compare(profitPercentage,
              PrecisionMath_mul(this.minProfitThreshold, PrecisionMath_toDecimal(100, 1))) >= 0
        /\ PrecisionMath_compare(totalPriceImpact, this.maxPriceImpact) <= 0]

ArbitrageTotals(this, pool1, pool2, pool3, inputAmount, swap1, swap2, swap3, netProfit) ==
    ArbitrageOpportunity(this, pool1, pool2, pool3, inputAmount, swap1, swap2, swap3,
        PrecisionMath_div(
            PrecisionMath_add(swap1.priceImpact,
                PrecisionMath_add(swap2.priceImpact, swap3.priceImpact)),
            PrecisionMath_toDecimal(3, 1)),
        netProfit,
        PrecisionMath_mul(PrecisionMath_div(netProfit, inputAmount), PrecisionMath_toDecimal(100, 1)))

\* the opportunity with the gas cost added to the profit, not taken off it
ArbitrageOf_gasAdded(this, pool1, pool2, pool3, inputAmount, swap1, swap2, swap3) ==
    ArbitrageTotals(this, pool1, pool2, pool3, inputAmount, swap1, swap2, swap3,
        PrecisionMath_add(PrecisionMath_sub(swap3.amountOut, inputAmount),
                          this.estimatedGasCost))

\* calculateArbitrage from "Calculate total metrics" to its return
ArbitrageOf(this, pool1, pool2, pool3, inputAmount, swap1, swap2, swap3) ==
    ArbitrageTotals(this, pool1, pool2, pool3, inputAmount, swap1, swap2, swap3,
        PrecisionMath_sub(PrecisionMath_sub(swap3.amountOut, inputAmount),
                          this.estimatedGasCost))

(***************************************************************************)
(* One call of calculateArbitrage on the pools of exampleProfitableArbitrage *)
(* (src/dex/raydiumCpmm.ts): the start amount and the SOL reserve of the   *)
(* third pool are drawn from small sets around the example's values, the   *)
(* fee rate of the pools and the gas cost from the example's value and 0.  *)
(***************************************************************************)
MaxStart == 12

StartAmounts == 0 .. MaxStart

\* a start of 10^-38, far below what 40 digits can tell apart from the reserves
DustAmount == Normal(FALSE, <<1>>, 0 - 38)

Pool3SolReserves == {4900, 5000, 5100, 5300}

PoolFeeRates == {PrecisionMath_toDecimal(25, 10000), PrecisionMath_toDecimal(0, 1)}

GasCosts == {PrecisionMath_toDecimal(1, 10000), PrecisionMath_toDecimal(0, 1)}

\* new TriangularArbitrage('0.001', '0.02', estimatedGasCost)
ExampleArbitrage(estimatedGasCost) ==
    [minProfitThreshold |-> PrecisionMath_toDecimal(1, 1000),
     maxPriceImpact |-> PrecisionMath_toDecimal(2, 100),
     estimatedGasCost |-> estimatedGasCost]

ExamplePool1(feeRate) ==
    [protocol |-> "RAYDIUM_CPMM", poolAddress |-> "ExamplePool1",
     tokenA |-> "SOL", tokenB |-> "USDC",
     reserveA |-> PrecisionMath_toDecimal(1000, 1), reserveB |-> PrecisionMath_toDecimal(50000, 1),
     feeRate |-> feeRate]

ExamplePool2(feeRate) ==
    [protocol |-> "RAYDIUM_CPMM", poolAddress |-> "ExamplePool2",
     tokenA |-> "USDC", tokenB |-> "ETH",
     reserveA |-> PrecisionMath_toDecimal(100000, 1), reserveB |-> PrecisionMath_toDecimal(40, 1),
     feeRate |-> feeRate]

ExamplePool3(solReserve, feeRate) ==
    [protocol |-> "RAYDIUM_CPMM", poolAddress |-> "ExamplePool3",
     tokenA |-> "ETH", tokenB |-> "SOL",
     reserveA |-> PrecisionMath_toDecimal(100, 1), reserveB |-> PrecisionMath_toDecimal(solReserve, 1),
     feeRate |-> feeRate]

InitArbitrage ==
    /\ \E start \in {PrecisionMath_toDecimal(k, 1) : k \in StartAmounts} \cup {DustAmount},
          sol \in Pool3SolReserves, feeRate \in PoolFeeRates, gas \in GasCosts :
          arbIn = [this |-> ExampleArbitrage(gas), pool1 |-> ExamplePool1(feeRate),
                   pool2 |-> ExamplePool2(feeRate), pool3 |-> ExamplePool3(sol, feeRate),
                   startAmount |-> start]
    /\ arbRoute = <<>>
    /\ arbOut = <<>>
    /\ LegIdle /\ EngineIdle /\ NormalizeIdle /\ EnrichIdle /\ LibIdle

\* the pool and the amount of the next leg: the start amount on pool1, then each
\* swap's amountOut on the pool after it
PoolOfLeg(k) == IF k = 1 THEN arbIn.pool1 ELSE IF k = 2 THEN arbIn.pool2 ELSE arbIn.pool3

AmountOfLeg(k) == IF k = 1 THEN arbIn.startAmount ELSE arbRoute[k - 1].amountOut

Swapped(swap) ==
    /\ arbRoute' = Append(arbRoute, swap)
    /\ arbOut' = IF swap.threw THEN swap ELSE arbOut

\* Leg 1, Leg 2, Leg 3: this.calculateSwap and route.push
SwapOnPool ==
    /\ arbIn # <<>>
    /\ arbOut = <<>>
    /\ Len(arbRoute) < 3
    /\ Swapped(calculateSwap(PoolOfLeg(Len(arbRoute) + 1), AmountOfLeg(Len(arbRoute) + 1)))
    /\ UNCHANGED <<legIn, legOut, pools, opts, triples, next, results, status, rawPool, normalized, enrichVars, libVars, arbIn>>

\* the total metrics, the profit test and the return
ReturnOpportunity ==
    /\ arbIn # <<>>
    /\ arbOut = <<>>
    /\ Len(arbRoute) = 3
    /\ arbOut' = ArbitrageOf(arbIn.this, arbIn.pool1, arbIn.pool2, arbIn.pool3,
                             arbIn.startAmount, arbRoute[1], arbRoute[2], arbRoute[3])
    /\ UNCHANGED <<legIn, legOut, pools, opts, triples, next, results, status, rawPool, normalized, enrichVars, libVars, arbIn, arbRoute>>

NextArbitrage == SwapOnPool \/ ReturnOpportunity

SpecArbitrage == InitArbitrage /\ [][NextArbitrage]_vars

(***************************************************************************)
(* Scenario S4: the profitable triangle                                     *)
(***************************************************************************)
Between(x, lo, hi) == PrecisionMath_compare(x, lo) > 0 /\ PrecisionMath_compare(x, hi) < 0

ScenarioS4 ==
    /\ arbIn # <<>>
    /\ arbIn.startAmount = PrecisionMath_toDecimal(10, 1)
    /\ arbIn.pool3.reserveB = PrecisionMath_toDecimal(5100, 1)
    /\ arbIn.pool1.feeRate = PrecisionMath_toDecimal(25, 10000)
    /\ arbIn.this.estimatedGasCost = PrecisionMath_toDecimal(1, 10000)

ScenarioS4Returned == ScenarioS4 /\ arbOut # <<>> /\ ~arbOut.threw

OtherFeeRates == {PrecisionMath_toDecimal(0, 1), PrecisionMath_toDecimal(1, 100), PrecisionMath_toDecimal(25, 10000)}

One == PrecisionMath_toDecimal(1, 1)

SwapsDone == {k \in 1 .. Len(arbRoute) : ~arbRoute[k].threw}

\* dx_after_fee of leg k: the amount in less the fee the swap reports
NetInputOfLeg(k) == PrecisionMath_sub(AmountOfLeg(k), arbRoute[k].fee)

MidPriceOfLeg(k) == PrecisionMath_div(PoolOfLeg(k).reserveB, PoolOfLeg(k).reserveA)

\* |mid_price - dy / dx_after_fee| / mid_price * 100
SlippageOnlyPct(midPrice, dy, dxAfterFee) ==
    PrecisionMath_mul(
        PrecisionMath_abs(PrecisionMath_div(
            PrecisionMath_sub(midPrice, PrecisionMath_div(dy, dxAfterFee)), midPrice)),
        PrecisionMath_toDecimal(100, 1))

\* the swap on the pool of leg k that leaves the same dx_after_fee under fee rate g
SameNetInputSwap(k, g) ==
    calculateCpmmSwap(PrecisionMath_div(NetInputOfLeg(k), PrecisionMath_sub(One, g)),
                      PoolOfLeg(k).reserveA, PoolOfLeg(k).reserveB, g)

Same(x, y) == PrecisionMath_compare(x, y) = 0

\* C20 on AmmCalculator.calculateCpmmSwap: the price impact a swap reports is
\* |mid_price - dy / dx_after_fee| / mid_price * 100 with dx_after_fee the input
\* less the fee, so for a fixed pool and dx_after_fee it is the same under every
\* fee rate, while the execution price dy / dx is not.
C20_ImpactIsolatesSlippage ==
    \A k \in SwapsDone :
        /\ Same(PrecisionMath_mul(arbRoute[k].priceImpact, PrecisionMath_toDecimal(100, 1)),
                SlippageOnlyPct(MidPriceOfLeg(k), arbRoute[k].amountOut, NetInputOfLeg(k)))
        /\ \A g \in OtherFeeRates :
              /\ Same(SameNetInputSwap(k, g).priceImpact, arbRoute[k].priceImpact)
              /\ Same(g, PoolOfLeg(k).feeRate)
                    \/ ~Same(SameNetInputSwap(k, g).effectivePrice, arbRoute[k].effectivePrice)

\* the same statement on simulateCPMMHuman, for a leg whose fee leaves a positive
\* dx_after_fee: processSwap reports |mid_price - dy / dx_after_fee| / mid_price * 100
LegNetInput == DSub(LegDxHuman, DMul(LegDxHuman, legOut.res.sim.fee))

LegFeeRates == {Zero, Dec(1, 100, 0), Dec(1, 4, 0)}

LegSameNetInputSim(g) ==
    simulateCPMMHuman(LegInReserveHuman, LegOutReserveHuman,
                      DDiv(LegNetInput, DSub(DInt(1), g)), g)

LegImpactIsolatesSlippage ==
    (LegDone /\ DLt(legOut.res.sim.fee, DInt(1))) =>
        /\ DEq(legOut.res.sim.priceImpactPct,
               DMul(DAbs(DDiv(DSub(LegMidPrice, DDiv(legOut.res.sim.dy, LegNetInput)),
                              LegMidPrice)), DInt(100)))
        /\ \A g \in LegFeeRates :
              /\ DEq(LegSameNetInputSim(g).priceImpactPct, legOut.res.sim.priceImpactPct)
              /\ DEq(g, legOut.res.sim.fee)
                    \/ ~DEq(LegSameNetInputSim(g).executionPrice, legOut.res.sim.executionPrice)

(***************************************************************************)
(* src/dex/meteoraDlmm.ts: MeteoraDlmm.calculateMultiBinSwap               *)
(***************************************************************************)
DecimalZero == PrecisionMath_toDecimal(0, 1)

\* AmmCalculator.calculateDlmmSwap after its checks, the fee known
DlmmSwapWithFee(amountIn, activeBinPrice, binLiquidity, fee, amountInAfterFee) ==
    [threw |-> FALSE,
     amountOut |-> PrecisionMath_min(PrecisionMath_mul(amountInAfterFee, activeBinPrice),
                                     PrecisionMath_mul(binLiquidity, activeBinPrice)),
     priceImpact |-> PrecisionMath_div(amountInAfterFee, binLiquidity),
     effectivePrice |->
        PrecisionMath_div(
            PrecisionMath_min(PrecisionMath_mul(amountInAfterFee, activeBinPrice),
                              PrecisionMath_mul(binLiquidity, activeBinPrice)),
            amountIn),
     fee |-> fee]

\* the swap in one bin with the output never capped at binLiquidity * price
calculateDlmmSwap_uncapped(amountIn, activeBinPrice, binLiquidity, feeRate) ==
    IF SignOf(amountIn) <= 0
    THEN [threw |-> TRUE, message |-> "Amount in must be positive"]
    ELSE IF SignOf(binLiquidity) <= 0
    THEN [threw |-> TRUE, message |-> "Bin liquidity must be positive"]
    ELSE [threw |-> FALSE,
          amountOut |-> PrecisionMath_mul(
                            PrecisionMath_sub(amountIn, PrecisionMath_mul(amountIn, feeRate)),
                            activeBinPrice),
          priceImpact |-> PrecisionMath_div(
                            PrecisionMath_sub(amountIn, PrecisionMath_mul(amountIn, feeRate)),
                            binLiquidity),
          effectivePrice |-> PrecisionMath_div(
                                PrecisionMath_mul(
                                    PrecisionMath_sub(amountIn, PrecisionMath_mul(amountIn, feeRate)),
                                    activeBinPrice),
                                amountIn),
          fee |-> PrecisionMath_mul(amountIn, feeRate)]

calculateDlmmSwap(amountIn, activeBinPrice, binLiquidity, feeRate) ==
    IF PrecisionMath_compare(amountIn, DecimalZero) <= 0
    THEN Thrown("Amount in must be positive")
    ELSE IF PrecisionMath_compare(binLiquidity, DecimalZero) <= 0
    THEN Thrown("Bin liquidity must be positive")
    ELSE DlmmSwapWithFee(amountIn, activeBinPrice, binLiquidity,
                         PrecisionMath_mul(amountIn, feeRate),
                         PrecisionMath_sub(amountIn, PrecisionMath_mul(amountIn, feeRate)))

\* A customFeeRate argument is a JavaScript value: undefined, a number, a string
\* that writes a number, or a Decimal.  `customFeeRate ? ... : DEFAULT_FEE_RATE`
\* takes the default for every falsy value: undefined and the number 0.
FeeRateGiven(customFeeRate) ==
    \/ customFeeRate.k \in {"string", "Decimal"}
    \/ customFeeRate.k = "number" /\ customFeeRate.v.c # <<>>

MeteoraDefaultFeeRate == PrecisionMath_toDecimal(3, 1000)

MeteoraFeeRate(customFeeRate) ==
    IF FeeRateGiven(customFeeRate) THEN customFeeRate.v ELSE MeteoraDefaultFeeRate

\* MeteoraDlmm.calculateSwapOutput
MeteoraSwapOutput(amountIn, activeBinPrice, binLiquidity, customFeeRate) ==
    calculateDlmmSwap(amountIn, activeBinPrice, binLiquidity, MeteoraFeeRate(customFeeRate))

\* [...bins].sort(compare): the bins in the order the comparison gives, bins of
\* one price in the order they came
RECURSIVE InsertBin(_, _, _)
InsertBin(bin, sorted, zeroForOne) ==
    IF sorted = <<>> THEN <<bin>>
    ELSE IF (IF zeroForOne
             THEN PrecisionMath_compare(sorted[1].price, bin.price) >= 0
             ELSE PrecisionMath_compare(sorted[1].price, bin.price) <= 0)
    THEN <<sorted[1]>> \o InsertBin(bin, Tail(sorted), zeroForOne)
    ELSE <<bin>> \o sorted

RECURSIVE SortBinsBy(_, _)
SortBinsBy(bins, zeroForOne) ==
    IF bins = <<>> THEN <<>>
    ELSE InsertBin(bins[Len(bins)], SortBinsBy(SubSeq(bins, 1, Len(bins) - 1), zeroForOne), zeroForOne)

AvailableLiquidity(bin, zeroForOne) == IF zeroForOne THEN bin.reserveY ELSE bin.reserveX

RECURSIVE SumOfPrices(_)
SumOfPrices(bins) ==
    IF bins = <<>> THEN DecimalZero
    ELSE PrecisionMath_add(SumOfPrices(SubSeq(bins, 1, Len(bins) - 1)), bins[Len(bins)].price)

AvgBinPrice(bins) ==
    IF Len(bins) > 0
    THEN PrecisionMath_div(SumOfPrices(bins), PrecisionMath_toDecimal(Len(bins), 1))
    ELSE PrecisionMath_toDecimal(1, 1)

MultiBinResult(totalAmountOut, totalFee, effectivePrice, avgBinPrice) ==
    [threw |-> FALSE,
     amountOut |-> totalAmountOut,
     priceImpact |-> PrecisionMath_abs(PrecisionMath_div(
                        PrecisionMath_sub(effectivePrice, avgBinPrice), avgBinPrice)),
     effectivePrice |-> effectivePrice,
     fee |-> totalFee]

(***************************************************************************)
(* One call of calculateMultiBinSwap.  The bins are drawn from the two     *)
(* bins of the multi-bin example of the README and three more: a bin whose *)
(* liquidity * price is less than its reserveY, a bin with no reserveY, a  *)
(* bin with no liquidity.  The amount is positive.                          *)
(***************************************************************************)
MaxBins == 2

Bin(binId, price, reserveX, reserveY, liquidity) ==
    [binId |-> binId, price |-> price,
     reserveX |-> PrecisionMath_toDecimal(reserveX, 1),
     reserveY |-> PrecisionMath_toDecimal(reserveY, 1),
     liquidity |-> PrecisionMath_toDecimal(liquidity, 1)]

ExampleBins ==
    {Bin(1, PrecisionMath_toDecimal(100, 100), 1000, 1000, 2000),
     Bin(2, PrecisionMath_toDecimal(101, 100), 800, 808, 1608),
     Bin(3, PrecisionMath_toDecimal(40, 100), 1000, 1000, 2000),
     Bin(4, PrecisionMath_toDecimal(102, 100), 500, 0, 500),
     Bin(5, PrecisionMath_toDecimal(99, 100), 0, 50, 0)}

BinLists ==
    {bins \in UNION {[1 .. n -> ExampleBins] : n \in 0 .. MaxBins} :
        \A i, j \in 1 .. Len(bins) : i # j => bins[i].binId # bins[j].binId}

BinAmounts == {PrecisionMath_toDecimal(100, 1), PrecisionMath_toDecimal(1500, 1), PrecisionMath_toDecimal(3000, 1)}

CustomFeeRates ==
    {[k |-> "undefined"],
     [k |-> "number", v |-> DecimalZero],
     [k |-> "string", v |-> DecimalZero],
     [k |-> "string", v |-> PrecisionMath_toDecimal(3, 1000)],
     [k |-> "number", v |-> PrecisionMath_toDecimal(1, 100)]}

InitDlmm ==
    /\ \E amountIn \in BinAmounts, bins \in BinLists, zeroForOne \in BOOLEAN, customFeeRate \in CustomFeeRates :
          binIn = [amountIn |-> amountIn, bins |-> bins, zeroForOne |-> zeroForOne,
                   customFeeRate |-> customFeeRate]
    /\ binWalk = <<>>
    /\ binOut = <<>>
    /\ LegIdle /\ EngineIdle /\ NormalizeIdle /\ EnrichIdle /\ ArbIdle /\ CpmmIdle
    /\ SwapIdle /\ SearchIdle /\ RpcIdle /\ ManagerIdle

\* the lines before the loop: the totals at 0, the fee rate, the sorted copy
SortBins ==
    /\ binIn # <<>>
    /\ binWalk = <<>>
    /\ binWalk' = [sortedBins |-> SortBinsBy(binIn.bins, binIn.zeroForOne),
                   feeRate |-> MeteoraFeeRate(binIn.customFeeRate),
                   at |-> 1,
                   amountInRemaining |-> binIn.amountIn,
                   totalAmountOut |-> DecimalZero,
                   totalFee |-> DecimalZero,
                   visited |-> <<>>]
    /\ UNCHANGED <<engineVars, arbVars, cpmmVars, swapVars, search, rpc, manager, binIn, binOut>>

InLoop ==
    /\ binWalk # <<>>
    /\ binOut = <<>>
    /\ binWalk.at <= Len(binWalk.sortedBins)
    /\ PrecisionMath_compare(binWalk.amountInRemaining, DecimalZero) > 0

BinAt == binWalk.sortedBins[binWalk.at]

\* what the walk did in a bin: the input it came with, what it added to the
\* output, the input it left with
Visit(bin, amountOut, amountInAfter) ==
    [at |-> binWalk.at, price |-> bin.price,
     availableLiquidity |-> AvailableLiquidity(bin, binIn.zeroForOne),
     amountIn |-> binWalk.amountInRemaining,
     amountOut |-> amountOut, amountInAfter |-> amountInAfter]

\* `continue` on a bin with nothing on the out side
SkipEmptyBin ==
    /\ InLoop
    /\ PrecisionMath_compare(AvailableLiquidity(BinAt, binIn.zeroForOne), DecimalZero) <= 0
    /\ binWalk' = [binWalk EXCEPT !.at = @ + 1]
    /\ UNCHANGED <<engineVars, arbVars, cpmmVars, swapVars, search, rpc, manager, binIn, binOut>>

\* "Fully filled from this bin" and break
FilledWalk(result) ==
    [binWalk EXCEPT !.totalAmountOut = PrecisionMath_add(@, result.amountOut),
                    !.totalFee = PrecisionMath_add(@, result.fee),
                    !.amountInRemaining = DecimalZero,
                    !.at = Len(binWalk.sortedBins) + 1,
                    !.visited = Append(@, Visit(BinAt, result.amountOut, DecimalZero))]

\* "Partially filled, move to next bin"
DrainedWalk(availableLiquidity, consumedInput) ==
    [binWalk EXCEPT !.totalAmountOut = PrecisionMath_add(@, availableLiquidity),
                    !.totalFee = PrecisionMath_add(@, PrecisionMath_mul(consumedInput, binWalk.feeRate)),
                    !.amountInRemaining = PrecisionMath_sub(@, consumedInput),
                    !.at = @ + 1,
                    !.visited = Append(@, Visit(BinAt, availableLiquidity,
                                     PrecisionMath_sub(binWalk.amountInRemaining, consumedInput)))]

ConsumedInput(availableLiquidity, price, feeRate) ==
    PrecisionMath_div(availableLiquidity,
        PrecisionMath_mul(price, PrecisionMath_sub(PrecisionMath_toDecimal(1, 1), feeRate)))

AfterBinSwap(result, availableLiquidity) ==
    IF result.threw
    THEN binOut' = result /\ UNCHANGED binWalk
    ELSE /\ binWalk' = IF PrecisionMath_compare(result.amountOut, availableLiquidity) <= 0
                       THEN FilledWalk(result)
                       ELSE DrainedWalk(availableLiquidity,
                               ConsumedInput(availableLiquidity, BinAt.price, binWalk.feeRate))
         /\ UNCHANGED binOut

\* this.calculateSwapOutput on the bin, then the fill or the drain; the fee rate
\* passed on is a Decimal, which is never falsy
SwapInBin ==
    /\ InLoop
    /\ PrecisionMath_compare(AvailableLiquidity(BinAt, binIn.zeroForOne), DecimalZero) > 0
    /\ AfterBinSwap(MeteoraSwapOutput(binWalk.amountInRemaining, BinAt.price, BinAt.liquidity,
                                      [k |-> "Decimal", v |-> binWalk.feeRate]),
                    AvailableLiquidity(BinAt, binIn.zeroForOne))
    /\ UNCHANGED <<engineVars, arbVars, cpmmVars, swapVars, search, rpc, manager, binIn>>

\* the loop left (no bin more, a break), the effective price and the impact
ReturnSwapResult ==
    /\ binWalk # <<>>
    /\ binOut = <<>>
    /\ \/ binWalk.at > Len(binWalk.sortedBins)
       \/ PrecisionMath_compare(binWalk.amountInRemaining, DecimalZero) <= 0
    /\ binOut' = MultiBinResult(binWalk.totalAmountOut, binWalk.totalFee,
                                PrecisionMath_div(binWalk.totalAmountOut, binIn.amountIn),
                                AvgBinPrice(binIn.bins))
    /\ UNCHANGED <<engineVars, arbVars, cpmmVars, swapVars, search, rpc, manager, binIn, binWalk>>

NextDlmm == SortBins \/ SkipEmptyBin \/ SwapInBin \/ ReturnSwapResult

SpecDlmm == InitDlmm /\ [][NextDlmm]_vars

(***************************************************************************)
(* The multi-bin walk                                                       *)
(***************************************************************************)
\* the output of a visit's whole input at the bin's price, the fee taken off
TheoreticalOutput(visit, feeRate) ==
    PrecisionMath_mul(
        PrecisionMath_sub(visit.amountIn, PrecisionMath_mul(visit.amountIn, feeRate)),
        visit.price)

SortedByPrice(bins, zeroForOne) ==
    \A i, j \in 1 .. Len(bins) :
        i < j => IF zeroForOne
                 THEN PrecisionMath_compare(bins[i].price, bins[j].price) >= 0
                 ELSE PrecisionMath_compare(bins[i].price, bins[j].price) <= 0

LaterBinHasReserve(at) ==
    \E j \in (at + 1) .. Len(binWalk.sortedBins) :
        PrecisionMath_compare(AvailableLiquidity(binWalk.sortedBins[j], binIn.zeroForOne), DecimalZero) > 0

\* the visit took the bin's reserve and went on with the input that reserve did not cost
TookReserveAndCarried(visit, feeRate) ==
    /\ visit.amountOut = visit.availableLiquidity
    /\ visit.amountInAfter =
          PrecisionMath_sub(visit.amountIn,
              ConsumedInput(visit.availableLiquidity, visit.price, feeRate))
    /\ PrecisionMath_compare(visit.amountInAfter, DecimalZero) > 0

\* C21: the walk visits the bins in descending price order for x->y and in
\* ascending order for y->x; in a bin whose theoretical output at the bin's
\* price exceeds the bin's out-side reserve it takes the reserve and carries the
\* unconsumed input on; input is never dropped while a later bin has out-side
\* reserve.
C21_WalkCarriesResidual ==
    binWalk # <<>> =>
        /\ SortedByPrice(binWalk.sortedBins, binIn.zeroForOne)
        /\ \A k, m \in 1 .. Len(binWalk.visited) : k < m => binWalk.visited[k].at < binWalk.visited[m].at
        /\ \A k \in 1 .. Len(binWalk.visited) :
              /\ PrecisionMath_compare(TheoreticalOutput(binWalk.visited[k], binWalk.feeRate),
                                       binWalk.visited[k].availableLiquidity) > 0
                    => TookReserveAndCarried(binWalk.visited[k], binWalk.feeRate)
              /\ (/\ PrecisionMath_compare(binWalk.visited[k].amountOut,
                         TheoreticalOutput(binWalk.visited[k], binWalk.feeRate)) < 0
                  /\ LaterBinHasReserve(binWalk.visited[k].at))
                    => PrecisionMath_compare(binWalk.visited[k].amountInAfter, DecimalZero) > 0

(***************************************************************************)
(* What a multi-bin swap can return                                         *)
(***************************************************************************)
RECURSIVE SumOfReserves(_, _)
SumOfReserves(bins, zeroForOne) ==
    IF bins = <<>> THEN DecimalZero
    ELSE PrecisionMath_add(SumOfReserves(SubSeq(bins, 1, Len(bins) - 1), zeroForOne),
                           AvailableLiquidity(bins[Len(bins)], zeroForOne))

\* the fee rate the caller asked for: the customFeeRate argument where one is
\* passed, the default where none is
FeeRateAsked(customFeeRate) ==
    IF customFeeRate.k = "undefined" THEN MeteoraDefaultFeeRate ELSE customFeeRate.v

MultiBinReturned == binOut # <<>> /\ ~binOut.threw

NoOutputCreated ==
    MultiBinReturned =>
        PrecisionMath_compare(binOut.amountOut, SumOfReserves(binIn.bins, binIn.zeroForOne)) <= 0

InputNeverNegative ==
    binWalk # <<>> => PrecisionMath_compare(binWalk.amountInRemaining, DecimalZero) >= 0

FeeWithinRate ==
    MultiBinReturned =>
        PrecisionMath_compare(binOut.fee,
            PrecisionMath_mul(binIn.amountIn, FeeRateAsked(binIn.customFeeRate))) <= 0

\* C30: for any bins, direction, fee rate in [0, 1) and positive amountIn the
\* amountOut returned is at most the sum of the bins' out-side reserves, the
\* input still to be consumed is never negative during the walk, and the fee
\* returned is at most amountIn * feeRate.
C30_NeverCreatesOutput == NoOutputCreated /\ InputNeverNegative /\ FeeWithinRate

(***************************************************************************)
(* The pool records a caller hands to findTriangularArbitrage               *)
(***************************************************************************)
\* C22: findTriangularArbitrage leaves every field, fee included, of every pool
\* record it is given unchanged.
C22_PoolsNeverMutated == [][pools' = pools]_vars

(***************************************************************************)
(* Pools that offer no arbitrage                                            *)
(***************************************************************************)
SpotPrice(pool) == PrecisionMath_div(pool.reserveB, pool.reserveA)

\* reserveB1 * reserveB2 * reserveB3 <= reserveA1 * reserveA2 * reserveA3
SpotPricesAtMostOne ==
    PrecisionMath_compare(
        PrecisionMath_mul(arbIn.pool1.reserveB,
            PrecisionMath_mul(arbIn.pool2.reserveB, arbIn.pool3.reserveB)),
        PrecisionMath_mul(arbIn.pool1.reserveA,
            PrecisionMath_mul(arbIn.pool2.reserveA, arbIn.pool3.reserveA))) <= 0

NoArbitrageReturned ==
    /\ arbIn # <<>>
    /\ SpotPricesAtMostOne
    /\ arbOut # <<>>
    /\ ~arbOut.threw

\* the cycle costs something that 40 digits can show: a fee, the gas, or an
\* input that is not dust against the reserves
CostShows ==
    \/ SignOf(arbIn.pool1.feeRate) > 0
    \/ SignOf(arbIn.this.estimatedGasCost) > 0
    \/ PrecisionMath_compare(arbIn.startAmount, PrecisionMath_toDecimal(1, 1)) >= 0

RaydiumDefaultFeeRate == PrecisionMath_toDecimal(25, 10000)

RaydiumFeeRate(customFeeRate) ==
    IF FeeRateGiven(customFeeRate) THEN customFeeRate.v ELSE RaydiumDefaultFeeRate

calculateSwapOutput(amountIn, reserveIn, reserveOut, customFeeRate) ==
    calculateCpmmSwap(amountIn, reserveIn, reserveOut, RaydiumFeeRate(customFeeRate))

\* (reserveIn * amountOut) / ((reserveOut - amountOut) * (1 - fee)); the fee rates
\* here are below 1, so the denominator is not 0
SwapInputWithFee(amountOut, reserveIn, reserveOut, feeRate) ==
    [threw |-> FALSE,
     amountIn |-> PrecisionMath_div(
                     PrecisionMath_mul(reserveIn, amountOut),
                     PrecisionMath_mul(PrecisionMath_sub(reserveOut, amountOut),
                                       PrecisionMath_sub(PrecisionMath_toDecimal(1, 1), feeRate)))]

calculateSwapInput(amountOut, reserveIn, reserveOut, customFeeRate) ==
    IF PrecisionMath_compare(amountOut, reserveOut) >= 0
    THEN Thrown("Amount out exceeds available reserves")
    ELSE SwapInputWithFee(amountOut, reserveIn, reserveOut, RaydiumFeeRate(customFeeRate))

(***************************************************************************)
(* Calls of the two functions on one amount, one pair of reserves and one  *)
(* customFeeRate: calculateSwapOutput of the amount, calculateSwapInput of *)
(* the amount, and calculateSwapOutput of the input that call returned     *)
(* (the forward calculation of the test 'should calculate correct input    *)
(* for desired output').                                                    *)
(***************************************************************************)
QuoteAmounts == {0, 1, 10, 84, 2001, 2669}

QuoteReserves == {<<1000, 2000>>, <<3683, 3870>>, <<4095, 142>>, <<0, 2000>>, <<1000, 0>>}

QuoteFeeRates ==
    {[k |-> "undefined"],
     [k |-> "string", v |-> PrecisionMath_toDecimal(3, 1000)],
     [k |-> "number", v |-> DecimalZero]}

InitCpmm ==
    /\ \E amount \in QuoteAmounts, reserves \in QuoteReserves, customFeeRate \in QuoteFeeRates,
          negative \in BOOLEAN :
          quoteArgs = [amount |-> IF negative
                                  THEN Negated(PrecisionMath_toDecimal(amount, 1))
                                  ELSE PrecisionMath_toDecimal(amount, 1),
                       reserveIn |-> PrecisionMath_toDecimal(reserves[1], 1),
                       reserveOut |-> PrecisionMath_toDecimal(reserves[2], 1),
                       customFeeRate |-> customFeeRate]
    /\ quoteOut = <<>>
    /\ quoteIn = <<>>
    /\ quoteBack = <<>>
    /\ LegIdle /\ EngineIdle /\ NormalizeIdle /\ EnrichIdle /\ ArbIdle /\ DlmmIdle
    /\ SwapIdle /\ SearchIdle /\ RpcIdle /\ ManagerIdle

CalculateSwapOutput ==
    /\ quoteArgs # <<>>
    /\ quoteOut = <<>>
    /\ quoteOut' = calculateSwapOutput(quoteArgs.amount, quoteArgs.reserveIn,
                                       quoteArgs.reserveOut, quoteArgs.customFeeRate)
    /\ UNCHANGED <<engineVars, arbVars, dlmmVars, swapVars, search, rpc, manager, quoteArgs, quoteIn, quoteBack>>

CalculateSwapInput ==
    /\ quoteArgs # <<>>
    /\ quoteIn = <<>>
    /\ quoteIn' = calculateSwapInput(quoteArgs.amount, quoteArgs.reserveIn,
                                     quoteArgs.reserveOut, quoteArgs.customFeeRate)
    /\ UNCHANGED <<engineVars, arbVars, dlmmVars, swapVars, search, rpc, manager, quoteArgs, quoteOut, quoteBack>>

\* "Verify by doing a forward calculation"
CalculateForward ==
    /\ quoteIn # <<>>
    /\ ~quoteIn.threw
    /\ quoteBack = <<>>
    /\ quoteBack' = calculateSwapOutput(quoteIn.amountIn, quoteArgs.reserveIn,
                                        quoteArgs.reserveOut, quoteArgs.customFeeRate)
    /\ UNCHANGED <<engineVars, arbVars, dlmmVars, swapVars, search, rpc, manager, quoteArgs, quoteOut, quoteIn>>

NextCpmm == CalculateSwapOutput \/ CalculateSwapInput \/ CalculateForward

SpecCpmm == InitCpmm /\ [][NextCpmm]_vars

(***************************************************************************)
(* Invalid inputs                                                           *)
(***************************************************************************)
\* C24: calculateSwapOutput throws 'Amount in must be positive' when amountIn
\* <= 0, whatever the reserves are, and 'Reserves must be positive' when the
\* amount is positive and a reserve is <= 0; calculateSwapInput throws 'Amount
\* out exceeds available reserves' when amountOut >= reserveOut; a call that
\* throws has no result, and the other calls return one.
C24_InvalidInputsRejected ==
    /\ quoteOut # <<>> =>
          IF SignOf(quoteArgs.amount) <= 0
          THEN quoteOut = Thrown("Amount in must be positive")
          ELSE IF SignOf(quoteArgs.reserveIn) <= 0 \/ SignOf(quoteArgs.reserveOut) <= 0
          THEN quoteOut = Thrown("Reserves must be positive")
          ELSE ~quoteOut.threw /\ SignOf(quoteOut.amountOut) > 0
    /\ quoteIn # <<>> =>
          IF PrecisionMath_compare(quoteArgs.amount, quoteArgs.reserveOut) >= 0
          THEN quoteIn = Thrown("Amount out exceeds available reserves")
          ELSE ~quoteIn.threw

C24_Witness ==
    /\ quoteArgs # <<>>
    /\ SignOf(quoteArgs.amount) = 0
    /\ SignOf(quoteArgs.reserveIn) = 0
    /\ quoteOut = Thrown("Amount in must be positive")
    /\ quoteIn # <<>>
    /\ ~quoteIn.threw

C24_WitnessExceeds ==
    /\ quoteArgs # <<>>
    /\ quoteArgs.amount = PrecisionMath_toDecimal(2001, 1)
    /\ quoteArgs.reserveOut = PrecisionMath_toDecimal(2000, 1)
    /\ quoteIn = Thrown("Amount out exceeds available reserves")
    /\ quoteOut # <<>>
    /\ ~quoteOut.threw

(***************************************************************************)
(* The input for a desired output, swapped forward                          *)
(***************************************************************************)
RoundTripDone ==
    /\ quoteArgs # <<>>
    /\ SignOf(quoteArgs.reserveIn) > 0
    /\ SignOf(quoteArgs.reserveOut) > 0
    /\ SignOf(quoteArgs.amount) > 0
    /\ PrecisionMath_compare(quoteArgs.amount, quoteArgs.reserveOut) < 0
    /\ quoteBack # <<>>

RoundTripClose ==
    RoundTripDone =>
        /\ ~quoteBack.threw
        /\ PrecisionMath_compare(
              PrecisionMath_abs(PrecisionMath_sub(quoteBack.amountOut, quoteArgs.amount)),
              PrecisionMath_toDecimal(1, 100)) < 0

RoundTripNotAbove ==
    RoundTripDone =>
        /\ ~quoteBack.threw
        /\ PrecisionMath_compare(quoteBack.amountOut, quoteArgs.amount) <= 0

\* C25: for positive reserves, one fee rate and a desired output with
\* 0 < amountOut < reserveOut, the amountOut of calculateSwapOutput on the input
\* that calculateSwapInput returns differs from the desired output by less than
\* 0.01 and is never greater than it.
C25_InputInvertsOutput == RoundTripClose /\ RoundTripNotAbove

(***************************************************************************)
(* processSwap as the unit test calls it                                    *)
(* (src/tests/unit/processorNewEngine.test.js)                              *)
(*                                                                         *)
(* The caller passes one object; processSwap destructures it as            *)
(* { pool = {}, dxAtomic = 0, opts = {} }.  The object of the test has the *)
(* keys pool, dx and opts; the engine's own calls have the key dxAtomic.   *)
(* The pools are the test's pool (1000 and 2000 human units, fee 0.003)    *)
(* and pools near it, the quote token with 2 decimals.                      *)
(***************************************************************************)
SwapTestPool(xReserve, fee) ==
    [type |-> "cpmm", fee |-> JNum(fee), baseDecimals |-> 6, quoteDecimals |-> 2,
     xReserve |-> JNum(Dec(xReserve, 1, 6)), yReserve |-> JNum(Dec(2000, 1, 2))]

SwapTestFees == {Dec(3, 1000, 0), Dec(1, 4, 0), Zero}

SwapTestReserves == {1000, 500, 250}

SwapTestAmounts == {1, 2, 5, 10, 20}

InitSwap ==
    /\ \E xReserve \in SwapTestReserves, fee \in SwapTestFees, amount \in SwapTestAmounts,
          key \in {"dx", "dxAtomic"} :
          swapCall = [pool |-> SwapTestPool(xReserve, fee), key |-> key,
                      amount |-> JNum(Dec(amount, 1, 6)), opts |-> [feeRate |-> JNull]]
    /\ swapOut = <<>>
    /\ LegIdle /\ EngineIdle /\ NormalizeIdle /\ EnrichIdle /\ ArbIdle /\ DlmmIdle /\ CpmmIdle
    /\ SearchIdle /\ RpcIdle /\ ManagerIdle

\* { dxAtomic = 0 }: the value under the key dxAtomic, 0 where the object has none
DestructuredDxAtomic(call) == IF call.key = "dxAtomic" THEN call.amount ELSE JNum(Zero)

ProcessSwap ==
    /\ swapCall # <<>>
    /\ swapOut = <<>>
    /\ swapOut' = processSwap(swapCall.pool, DestructuredDxAtomic(swapCall), swapCall.opts.feeRate)
    /\ UNCHANGED <<engineVars, arbVars, dlmmVars, cpmmVars, search, rpc, manager, swapCall>>

NextSwap == ProcessSwap

SpecSwap == InitSwap /\ [][NextSwap]_vars

\* const { name } = result: undefined, NaN as a number, where result has no such key
Field(result, name) == IF name \in DOMAIN result THEN result[name] ELSE NaN

SwapX == atomicToHuman(toDecimal(swapCall.pool.xReserve), swapCall.pool.baseDecimals)

SwapY == atomicToHuman(toDecimal(swapCall.pool.yReserve), swapCall.pool.quoteDecimals)

SwapDxHuman == atomicToHuman(toDecimal(swapCall.amount), swapCall.pool.baseDecimals)

SwapFee == toDecimal(swapCall.pool.fee)

\* y - x * y / (x + dx * (1 - f))
ExpectedDy ==
    DSub(SwapY, DDiv(DMul(SwapX, SwapY),
                     DAdd(SwapX, DMul(SwapDxHuman, DSub(DInt(1), SwapFee)))))

SwapCalledWithDx == swapCall # <<>> /\ swapCall.key = "dx" /\ swapOut # <<>>

\* C26: processSwap called as processSwap({ pool, dx, opts }) on a CPMM pool
\* with atomic reserves x, y, fee f and atomic input dx returns dyHuman =
\* y - x*y/(x + dx*(1 - f)) in human units, executionPrice = dyHuman / dxHuman,
\* feePaidHuman = f * dxHuman, midPrice = y / x and priceImpactPct =
\* (midPrice - executionPrice) / midPrice * 100.
C26_SwapContract ==
    SwapCalledWithDx =>
        /\ ~swapOut.threw
        /\ DEq(Field(swapOut, "dyHuman"), ExpectedDy)
        /\ DEq(Field(swapOut, "executionPrice"), DDiv(ExpectedDy, SwapDxHuman))
        /\ DEq(Field(swapOut, "feePaidHuman"), DMul(SwapFee, SwapDxHuman))
        /\ DEq(Field(swapOut, "midPrice"), DDiv(SwapY, SwapX))
        /\ DEq(Field(swapOut, "priceImpactPct"),
               DMul(DDiv(DSub(DDiv(SwapY, SwapX), DDiv(ExpectedDy, SwapDxHuman)),
                         DDiv(SwapY, SwapX)), DInt(100)))

\* what the function does return when its argument carries the key dxAtomic
SwapOfDxAtomic ==
    (swapCall # <<>> /\ swapCall.key = "dxAtomic" /\ swapOut # <<>>) =>
        /\ ~swapOut.threw
        /\ DEq(Field(swapOut, "dy"), ExpectedDy)
        /\ DEq(Field(swapOut, "executionPrice"), DDiv(ExpectedDy, SwapDxHuman))
        /\ DEq(Field(swapOut, "feePaid"), DMul(SwapFee, SwapDxHuman))
        /\ DEq(Field(swapOut, "midPrice"), DDiv(SwapY, SwapX))
        /\ DEq(Field(swapOut, "priceImpactPct"),
               DMul(DAbs(DDiv(DSub(DDiv(SwapY, SwapX),
                                   DDiv(ExpectedDy, DMul(SwapDxHuman, DSub(DInt(1), SwapFee)))),
                              DDiv(SwapY, SwapX))), DInt(100)))
        /\ ~("dyHuman" \in DOMAIN swapOut) /\ ~("feePaidHuman" \in DOMAIN swapOut)

(***************************************************************************)
(* TriangularArbitrage.findOptimalAmount                                    *)
(* (src/arbitrage/triangularArbitrage.ts)                                   *)
(***************************************************************************)
ArbitrageFromLeg3(this, pool1, pool2, pool3, inputAmount, swap1, swap2, swap3) ==
    IF swap3.threw THEN swap3
    ELSE ArbitrageOf(this, pool1, pool2, pool3, inputAmount, swap1, swap2, swap3)

ArbitrageFromLeg2(this, pool1, pool2, pool3, inputAmount, swap1, swap2) ==
    IF swap2.threw THEN swap2
    ELSE ArbitrageFromLeg3(this, pool1, pool2, pool3, inputAmount, swap1, swap2,
                           calculateSwap(pool3, swap2.amountOut))

ArbitrageFromLeg1(this, pool1, pool2, pool3, inputAmount, swap1) ==
    IF swap1.threw THEN swap1
    ELSE ArbitrageFromLeg2(this, pool1, pool2, pool3, inputAmount, swap1,
                           calculateSwap(pool2, swap1.amountOut))

\* calculateArbitrage as one call: the three swaps and the totals; a swap that
\* throws ends the call
calculateArbitrage(this, pool1, pool2, pool3, startAmount) ==
    ArbitrageFromLeg1(this, pool1, pool2, pool3, startAmount, calculateSwap(pool1, startAmount))

\* PrecisionMath.div(PrecisionMath.add(a, b), 2)
MidOf(a, b) == PrecisionMath_div(PrecisionMath_add(a, b), PrecisionMath_toDecimal(2, 1))

\* one step of "Find best opportunity": index j replaces the best only when its
\* netProfit is greater
BetterOf(opportunities, bestIndex, j) ==
    IF PrecisionMath_compare(opportunities[j].netProfit, opportunities[bestIndex].netProfit) > 0
    THEN j ELSE bestIndex

\* bestIndex, counted from 1: 1 is lowMid, 2 is mid, 3 is highMid
BestIndexOf(opportunities) == BetterOf(opportunities, BetterOf(opportunities, 1, 2), 3)

Evaluation(opportunity) ==
    [inputAmount |-> opportunity.inputAmount, netProfit |-> opportunity.netProfit]

\* the end of a round: the new range, the best of the round, and the break when
\* the range has become smaller than minAmount
RoundEnded(s, opportunities, bestIndex, min, max) ==
    [s EXCEPT !.min = min, !.max = max, !.i = @ + 1,
              !.bestOpportunity = opportunities[bestIndex],
              !.evaluated = @ \cup {Evaluation(opportunities[j]) : j \in 1 .. 3},
              !.stopped = PrecisionMath_compare(PrecisionMath_sub(max, min), s.minAmount) < 0]

\* the range after a round that keeps lowMid as the upper end when lowMid was best
Narrowed_toLowMid(s, lowMid, mid, highMid, opportunities, bestIndex) ==
    IF bestIndex = 1 THEN RoundEnded(s, opportunities, bestIndex, s.min, lowMid)
    ELSE IF bestIndex = 3 THEN RoundEnded(s, opportunities, bestIndex, mid, s.max)
    ELSE RoundEnded(s, opportunities, bestIndex, lowMid, highMid)

\* "Adjust search range based on where we found the best"
Narrowed(s, lowMid, mid, highMid, opportunities, bestIndex) ==
    IF bestIndex = 1 THEN RoundEnded(s, opportunities, bestIndex, s.min, mid)
    ELSE IF bestIndex = 3 THEN RoundEnded(s, opportunities, bestIndex, mid, s.max)
    ELSE RoundEnded(s, opportunities, bestIndex, lowMid, highMid)

RoundOf(s, lowMid, mid, highMid, opportunities) ==
    IF \E j \in 1 .. 3 : opportunities[j].threw
    THEN [s EXCEPT !.returned = opportunities[CHOOSE j \in 1 .. 3 :
                                     /\ opportunities[j].threw
                                     /\ \A k \in 1 .. j - 1 : ~opportunities[k].threw]]
    ELSE Narrowed(s, lowMid, mid, highMid, opportunities, BestIndexOf(opportunities))

RoundAt(s, lowMid, mid, highMid) ==
    RoundOf(s, lowMid, mid, highMid,
            <<calculateArbitrage(s.this, s.pool1, s.pool2, s.pool3, lowMid),
              calculateArbitrage(s.this, s.pool1, s.pool2, s.pool3, mid),
              calculateArbitrage(s.this, s.pool1, s.pool2, s.pool3, highMid)>>)

RoundFrom(s, mid) == RoundAt(s, MidOf(s.min, mid), mid, MidOf(mid, s.max))

(***************************************************************************)
(* The search on the pools of exampleProfitableArbitrage.  The ranges are  *)
(* the README's 1 .. 1000, the narrower 1 .. 3, and a range whose ends     *)
(* differ in the 40th digit only; the iteration counts are 1, 4 and the    *)
(* default 20.                                                             *)
(***************************************************************************)
SearchRanges ==
    {<<PrecisionMath_toDecimal(1, 1), PrecisionMath_toDecimal(1000, 1)>>,
     <<PrecisionMath_toDecimal(1, 1), PrecisionMath_toDecimal(3, 1)>>,
     <<PrecisionMath_toDecimal(1, 1),
       PrecisionMath_add(PrecisionMath_toDecimal(1, 1), Normal(FALSE, <<1>>, 0 - 39))>>}

SearchIterations == {1, 4, 20}

InitSearch ==
    /\ \E range \in SearchRanges, iterations \in SearchIterations, sol \in Pool3SolReserves :
          search = [this |-> ExampleArbitrage(PrecisionMath_toDecimal(1, 10000)),
                    pool1 |-> ExamplePool1(PrecisionMath_toDecimal(25, 10000)),
                    pool2 |-> ExamplePool2(PrecisionMath_toDecimal(25, 10000)),
                    pool3 |-> ExamplePool3(sol, PrecisionMath_toDecimal(25, 10000)),
                    minAmount |-> range[1], maxAmount |-> range[2], iterations |-> iterations,
                    min |-> range[1], max |-> range[2], i |-> 0, bestOpportunity |-> <<>>,
                    evaluated |-> {}, stopped |-> FALSE, returned |-> <<>>]
    /\ LegIdle /\ EngineIdle /\ NormalizeIdle /\ EnrichIdle /\ ArbIdle /\ DlmmIdle /\ CpmmIdle
    /\ SwapIdle /\ RpcIdle /\ ManagerIdle

\* one pass of the for loop, from the three midpoints to the break test
SearchRound ==
    /\ search # <<>>
    /\ search.returned = <<>>
    /\ ~search.stopped
    /\ search.i < search.iterations
    /\ search' = RoundFrom(search, MidOf(search.min, search.max))
    /\ UNCHANGED <<engineVars, arbVars, dlmmVars, cpmmVars, swapVars, rpc, manager>>

\* return bestOpportunity!
ReturnBest ==
    /\ search # <<>>
    /\ search.returned = <<>>
    /\ search.stopped \/ search.i >= search.iterations
    /\ search' = [search EXCEPT !.returned = search.bestOpportunity]
    /\ UNCHANGED <<engineVars, arbVars, dlmmVars, cpmmVars, swapVars, rpc, manager>>

NextSearch == SearchRound \/ ReturnBest

SpecSearch == InitSearch /\ [][NextSearch]_vars

SearchReturned == search # <<>> /\ search.returned # <<>>

AtMostIterations == search # <<>> => search.i <= search.iterations

BestOfEvaluated ==
    SearchReturned =>
        /\ ~search.returned.threw
        /\ Evaluation(search.returned) \in search.evaluated
        /\ \A e \in search.evaluated :
              PrecisionMath_compare(search.returned.netProfit, e.netProfit) >= 0

BelowMax ==
    SearchReturned =>
        PrecisionMath_compare(search.returned.inputAmount, search.maxAmount) < 0

AboveMin ==
    SearchReturned =>
        PrecisionMath_compare(search.returned.inputAmount, search.minAmount) > 0

\* the lowest candidate of the first round, as the code computes it, is above min
LowestCandidateAbove ==
    PrecisionMath_compare(MidOf(search.minAmount, MidOf(search.minAmount, search.maxAmount)),
                          search.minAmount) > 0

MaxCalls == 2

DefaultRpcEndpoint == "https://api.mainnet-beta.solana.com"

RpcEndpointOptions == {<<>>, <<"rpc1">>, <<"rpc1", "rpc2">>, <<"rpc1", "rpc2", "rpc3">>}

MaxRetriesOptions == {<<>>, <<0>>, <<1>>, <<3>>, <<0 - 1>>}

\* Array.isArray(opts.rpcEndpoints) && opts.rpcEndpoints.length > 0 ? ... : [default]
RpcEndpointsOf(given) == IF Len(given) > 0 THEN given ELSE <<DefaultRpcEndpoint>>

\* Number(opts.maxRetries || 2)
MaxRetriesOf(given) == IF given = <<>> \/ given[1] = 0 THEN 2 ELSE given[1]

InitRpc ==
    /\ \E endpoints \in RpcEndpointOptions, retries \in MaxRetriesOptions :
          rpc = [connections |-> RpcEndpointsOf(endpoints), maxRetries |-> MaxRetriesOf(retries),
                 rr |-> 0, calls |-> 0, rrAtCall |-> 0, attempts |-> <<>>,
                 ended |-> "idle", value |-> <<>>]
    /\ LegIdle /\ EngineIdle /\ NormalizeIdle /\ EnrichIdle /\ ArbIdle /\ DlmmIdle /\ CpmmIdle
    /\ SwapIdle /\ SearchIdle /\ ManagerIdle

\* the connection every attempt uses, whatever the counter
nextConnection_first(connections, rr) == connections[1]

\* this._connections[this._rr % this._connections.length]
nextConnection(connections, rr) == connections[(rr % Len(connections)) + 1]

\* the call is entered: lastErr = null, attempt = 0; with maxRetries < 0 the loop
\* body never runs and the call throws at once
GetMultipleAccountsInfo ==
    /\ rpc # <<>>
    /\ rpc.ended # "running"
    /\ rpc.calls < MaxCalls
    /\ rpc' = [rpc EXCEPT !.calls = @ + 1, !.rrAtCall = rpc.rr, !.attempts = <<>>,
                          !.ended = IF 0 <= rpc.maxRetries THEN "running" ELSE "threw",
                          !.value = IF 0 <= rpc.maxRetries THEN <<>>
                                    ELSE [error |-> "getMultipleAccountsInfo failed"]]
    /\ UNCHANGED <<engineVars, arbVars, dlmmVars, cpmmVars, swapVars, search, manager>>

\* the attempt resolved: return await conn.getMultipleAccountsInfo(...)
Resolved(conn) ==
    [rpc EXCEPT !.rr = @ + 1,
                !.attempts = Append(@, [conn |-> conn, failed |-> FALSE]),
                !.ended = "returned",
                !.value = [accounts |-> conn]]

\* the attempt rejected with e: lastErr = e, then the sleep before the next
\* attempt or, after the last one, throw lastErr
Rejected(conn, e) ==
    [rpc EXCEPT !.rr = @ + 1,
                !.attempts = Append(@, [conn |-> conn, failed |-> TRUE, error |-> e]),
                !.ended = IF Len(rpc.attempts) < rpc.maxRetries THEN "running" ELSE "threw",
                !.value = IF Len(rpc.attempts) < rpc.maxRetries THEN <<>> ELSE [error |-> e]]

\* one pass of the for loop; attempt is the number of attempts made before it
Attempt ==
    /\ rpc # <<>>
    /\ rpc.ended = "running"
    /\ Len(rpc.attempts) <= rpc.maxRetries
    /\ \E resolves \in BOOLEAN :
          rpc' = IF resolves
                 THEN Resolved(nextConnection(rpc.connections, rpc.rr))
                 ELSE Rejected(nextConnection(rpc.connections, rpc.rr),
                               <<nextConnection(rpc.connections, rpc.rr), Len(rpc.attempts)>>)
    /\ UNCHANGED <<engineVars, arbVars, dlmmVars, cpmmVars, swapVars, search, manager>>

NextRpc == GetMultipleAccountsInfo \/ Attempt

SpecRpc == InitRpc /\ [][NextRpc]_vars

RpcCalled == rpc # <<>> /\ rpc.calls > 0

AttemptsBounded == RpcCalled => Len(rpc.attempts) <= rpc.maxRetries + 1

\* attempt k of a call is on the k-th connection after the one the call before
\* it used last
RoundRobin ==
    RpcCalled =>
        \A k \in 1 .. Len(rpc.attempts) :
            rpc.attempts[k].conn =
                rpc.connections[((rpc.rrAtCall + k - 1) % Len(rpc.connections)) + 1]

\* no attempt follows one that resolved
FirstSuccessEnds ==
    RpcCalled =>
        /\ \A k \in 1 .. Len(rpc.attempts) - 1 : rpc.attempts[k].failed
        /\ rpc.ended = "returned" <=>
              (Len(rpc.attempts) > 0 /\ ~rpc.attempts[Len(rpc.attempts)].failed)
        /\ rpc.ended = "returned" =>
              rpc.value = [accounts |-> rpc.attempts[Len(rpc.attempts)].conn]

\* the call throws exactly when maxRetries + 1 attempts have failed, and what it
\* throws is the error of the last of them
AllFailedThrows ==
    RpcCalled =>
        /\ rpc.ended = "threw" <=>
              /\ Len(rpc.attempts) = (IF 0 <= rpc.maxRetries THEN rpc.maxRetries + 1 ELSE 0)
              /\ \A k \in 1 .. Len(rpc.attempts) : rpc.attempts[k].failed
        /\ (rpc.ended = "threw" /\ Len(rpc.attempts) > 0) =>
              rpc.value = [error |-> rpc.attempts[Len(rpc.attempts)].error]

\* a call that has not ended has an attempt left to make
NeverStuck == (RpcCalled /\ rpc.ended = "running") => Len(rpc.attempts) <= rpc.maxRetries

\* C28: _getMultipleAccountsInfo makes at most maxRetries + 1 attempts, each
\* on the next connection in round-robin order over the configured endpoints;
\* it returns the result of the first attempt that succeeds without further
\* attempts, and when every attempt fails it ends by throwing the error of the
\* last attempt.
C28_RetriesRoundRobin ==
    AttemptsBounded /\ RoundRobin /\ FirstSuccessEnds /\ AllFailedThrows /\ NeverStuck

\* the second call of a fetcher with three endpoints and maxRetries 3 failed
\* four times, went once round the endpoints and threw the fourth error
C28_Witness ==
    /\ RpcCalled
    /\ rpc.calls = 2
    /\ Len(rpc.connections) = 3
    /\ rpc.rrAtCall % 3 # 0
    /\ Len(rpc.attempts) = 4
    /\ rpc.ended = "threw"
    /\ rpc.value = [error |-> <<rpc.attempts[4].conn, 3>>]

(***************************************************************************)
(* PoolManager (PRODUCTION_GUIDE.md, utils/poolManager.js)                  *)
(*                                                                         *)
(* A raw pool is null or an object with the keys poolAddress, baseMint,    *)
(* quoteMint, xReserve, yReserve, raw.reserve_x_amount,                    *)
(* raw.reserve_y_amount, type and baseDecimals; a key the object does not  *)
(* have is Undefined.  The symbols, the fee and the mid price of the       *)
(* normalized pool take no part in the stats and are left out.             *)
(***************************************************************************)
MaxProcessed == 3

\* BASE58_RE.test(s) on a string
isBase58(v) ==
    /\ v.t = "string"
    /\ Len(v.s) >= 32 /\ Len(v.s) <= 44
    /\ \A i \in 1..Len(v.s) : v.s[i] \in Base58Chars

\* asString(v) || null
asStringOrNull(v) == IF v = Undefined \/ StringOf(v) = Str(<<>>) THEN Undefined ELSE StringOf(v)

\* pick(obj, ...paths): the first of the values that is neither undefined nor null
RECURSIVE PickFirst(_)
PickFirst(values) ==
    IF values = <<>> THEN Undefined
    ELSE IF Head(values) # Undefined THEN Head(values)
    ELSE PickFirst(Tail(values))

\* s.split('.')[0]
IntPart(s) ==
    IF \E k \in 1..Len(s) : s[k] = "."
    THEN SubSeq(s, 1, (CHOOSE k \in 1..Len(s) : s[k] = "." /\ \A j \in 1..k - 1 : s[j] # ".") - 1)
    ELSE s

\* intPart.replace(/^0+(?=\d)/, ''): the leading zeros go, the last digit stays
StripLeadingZeros(s) ==
    IF \A i \in 1..Len(s) : s[i] = "0" THEN SubSeq(s, Len(s), Len(s))
    ELSE SubSeq(s, CHOOSE i \in 1..Len(s) : s[i] # "0" /\ \A j \in 1..i - 1 : s[j] = "0", Len(s))

parseAtomic(v) ==
    IF v = Undefined THEN Undefined
    ELSE IF v.t = "bigint" THEN StringOf(v)
    ELSE IF v.t = "number" THEN (IF v.n <= 0 THEN Undefined ELSE StringOf(v))
    ELSE IF v.s = <<>> THEN Undefined
    ELSE IF isBase58(v) THEN Undefined
    ELSE IF IsDecimalText(v.s) THEN Str(StripLeadingZeros(IntPart(v.s)))
    ELSE Undefined

\* detectPoolType on an object whose only type key is type
detectPoolType(raw) ==
    IF raw.type = Str(<<"d", "l", "m", "m">>) THEN "dlmm"
    ELSE IF raw.type = Str(<<"c", "l", "m", "m">>) THEN "clmm"
    ELSE "cpmm"

NewStats ==
    [totalProcessed |-> 0, validPools |-> 0, invalidPools |-> 0, missingAddress |-> 0,
     missingTokens |-> 0, missingDecimals |-> 0, missingReserves |-> 0,
     normalizedReservesFromRaw |-> 0,
     detectedTypes |-> [dlmm |-> 0, clmm |-> 0, cpmm |-> 0, other |-> 0]]

Repeated(c, n) == [i \in 1..n |-> c]

GoodAddress == Str(Repeated("A", 32))
GoodMint == Str(Repeated("M", 44))
ZeroAddress == Str(Repeated("0", 32))
ShortAddress == Str(<<"a", "b", "c">>)
VaultOfOnes == Str(Repeated("1", 32))
Amount1000 == Str(<<"1", "0", "0", "0">>)
Amount007 == Str(<<"0", "0", "7", ".", "5">>)

RawPoolObject(poolAddress, baseMint, quoteMint, xReserve, yReserve, rawX, rawY, type, baseDecimals) ==
    [object |-> TRUE, poolAddress |-> poolAddress, baseMint |-> baseMint, quoteMint |-> quoteMint,
     xReserve |-> xReserve, yReserve |-> yReserve,
     raw_reserve_x_amount |-> rawX, raw_reserve_y_amount |-> rawY,
     type |-> type, baseDecimals |-> baseDecimals, quoteDecimals |-> Num(6)]

\* null, or a value that is no object
NoObject ==
    [object |-> FALSE, poolAddress |-> Undefined, baseMint |-> Undefined, quoteMint |-> Undefined,
     xReserve |-> Undefined, yReserve |-> Undefined,
     raw_reserve_x_amount |-> Undefined, raw_reserve_y_amount |-> Undefined,
     type |-> Undefined, baseDecimals |-> Undefined, quoteDecimals |-> Undefined]

ManagerPools ==
    {NoObject}
    \cup {RawPoolObject(address, GoodMint, quoteMint, xReserve, Amount1000, Undefined, Undefined,
                        Str(<<"d", "l", "m", "m">>), Num(9)) :
             address \in {Undefined, ZeroAddress, GoodAddress},
             quoteMint \in {Str(<<>>), GoodMint},
             xReserve \in {Undefined, Amount007, Num(0), BigIntOf(0)}}
    \cup {RawPoolObject(GoodAddress, baseMint, GoodMint, VaultOfOnes, yReserve, rawX, Undefined,
                        type, Undefined) :
             baseMint \in {Undefined, GoodMint},
             yReserve \in {Undefined, Amount1000},
             rawX \in {Amount1000, ShortAddress},
             type \in {Undefined, Str(<<"c", "l", "m", "m">>)}}

InitManager ==
    /\ \E strict \in BOOLEAN :
          manager = [strict |-> strict, stats |-> NewStats, calls |-> 0,
                     rawPool |-> NoObject, result |-> <<>>]
    /\ LegIdle /\ EngineIdle /\ NormalizeIdle /\ EnrichIdle /\ ArbIdle /\ DlmmIdle /\ CpmmIdle
    /\ SwapIdle /\ SearchIdle /\ RpcIdle

Counted(stats, name, counts) == IF counts THEN [stats EXCEPT ![name] = @ + 1] ELSE stats

\* errors.push / warnings.push, in the order of the code
Messages(missingAddress, missingTokens, missingReserves) ==
    (IF missingAddress THEN <<"Missing/invalid pool address">> ELSE <<>>)
    \o (IF missingTokens THEN <<"Missing token mints">> ELSE <<>>)
    \o (IF missingReserves THEN <<"Missing reserve amounts">> ELSE <<>>)

\* the valid count with the invalid count left alone whatever the errors
Concluded_neverInvalid(m, raw, stats, errors, warnings, normalizedPool) ==
    [m EXCEPT !.calls = @ + 1,
              !.rawPool = raw,
              !.stats = Counted(stats, "validPools", errors = <<>>),
              !.result = [valid |-> errors = <<>>, errors |-> errors, warnings |-> warnings,
                          pool |-> IF errors = <<>> \/ ~m.strict THEN normalizedPool
                                   ELSE Undefined]]

\* const valid = errors.length === 0, the count and the return
Concluded(m, raw, stats, errors, warnings, normalizedPool) ==
    [m EXCEPT !.calls = @ + 1,
              !.rawPool = raw,
              !.stats = Counted(Counted(stats, "validPools", errors = <<>>),
                                "invalidPools", errors # <<>>),
              !.result = [valid |-> errors = <<>>, errors |-> errors, warnings |-> warnings,
                          pool |-> IF errors = <<>> \/ ~m.strict THEN normalizedPool
                                   ELSE Undefined]]

\* from "if (!xReserve || !yReserve)" to the end, the reserves settled
WithReservesParsed(m, raw, stats, address, baseMint, quoteMint, xReserve, yReserve) ==
    Concluded(m, raw,
        Counted(stats, "missingReserves", ~ToBoolean(xReserve) \/ ~ToBoolean(yReserve)),
        Messages(address = Undefined \/ ~isBase58(address),
                 ~ToBoolean(baseMint) \/ ~ToBoolean(quoteMint),
                 m.strict /\ (~ToBoolean(xReserve) \/ ~ToBoolean(yReserve))),
        (IF raw.baseDecimals = Undefined \/ raw.quoteDecimals = Undefined
         THEN <<"Missing decimals; defaults may be wrong">> ELSE <<>>)
        \o Messages(FALSE, FALSE, ~m.strict /\ (~ToBoolean(xReserve) \/ ~ToBoolean(yReserve))),
        [poolAddress |-> address, poolType |-> detectPoolType(raw),
         baseMint |-> baseMint, quoteMint |-> quoteMint,
         xReserve |-> IF ToBoolean(xReserve) THEN xReserve ELSE Undefined,
         yReserve |-> IF ToBoolean(yReserve) THEN yReserve ELSE Undefined])

\* the reserves: the candidates parsed, then the amounts under raw where one is
\* missing
WithCandidates(m, raw, stats, address, baseMint, quoteMint, xReserve, yReserve, x2, y2) ==
    IF /\ ~ToBoolean(xReserve) \/ ~ToBoolean(yReserve)
       /\ ToBoolean(raw.raw_reserve_x_amount) \/ ToBoolean(raw.raw_reserve_y_amount)
    THEN WithReservesParsed(m, raw,
             Counted(stats, "normalizedReservesFromRaw", ToBoolean(x2) \/ ToBoolean(y2)),
             address, baseMint, quoteMint,
             IF ~ToBoolean(xReserve) /\ ToBoolean(x2) THEN x2 ELSE xReserve,
             IF ~ToBoolean(yReserve) /\ ToBoolean(y2) THEN y2 ELSE yReserve)
    ELSE WithReservesParsed(m, raw, stats, address, baseMint, quoteMint, xReserve, yReserve)

\* the address, the type, the mints and the decimals, with their counts
WithIdentity(m, raw, address, baseMint, quoteMint) ==
    WithCandidates(m, raw,
        Counted(Counted(Counted(
            [m.stats EXCEPT !.totalProcessed = @ + 1,
                            !.detectedTypes[detectPoolType(raw)] = @ + 1],
            "missingAddress", address = Undefined \/ ~isBase58(address)),
            "missingDecimals",
            raw.baseDecimals = Undefined \/ raw.quoteDecimals = Undefined),
            "missingTokens", ~ToBoolean(baseMint) \/ ~ToBoolean(quoteMint)),
        address, baseMint, quoteMint,
        parseAtomic(PickFirst(<<raw.xReserve, raw.raw_reserve_x_amount>>)),
        parseAtomic(PickFirst(<<raw.yReserve, raw.raw_reserve_y_amount>>)),
        parseAtomic(raw.raw_reserve_x_amount),
        parseAtomic(raw.raw_reserve_y_amount))

processPool(m, raw) ==
    IF ~raw.object
    THEN [m EXCEPT !.calls = @ + 1,
                   !.rawPool = raw,
                   !.stats = [m.stats EXCEPT !.totalProcessed = @ + 1, !.invalidPools = @ + 1],
                   !.result = [valid |-> FALSE, errors |-> <<"Invalid pool object">>,
                               warnings |-> <<>>, pool |-> Undefined]]
    ELSE WithIdentity(m, raw, asStringOrNull(PickFirst(<<raw.poolAddress>>)),
                      asStringOrNull(PickFirst(<<raw.baseMint>>)),
                      asStringOrNull(PickFirst(<<raw.quoteMint>>)))

ProcessPool ==
    /\ manager # <<>>
    /\ manager.calls < MaxProcessed
    /\ \E raw \in ManagerPools : manager' = processPool(manager, raw)
    /\ UNCHANGED <<engineVars, arbVars, dlmmVars, cpmmVars, swapVars, search, rpc>>

ResetStats ==
    /\ manager # <<>>
    /\ manager' = [manager EXCEPT !.stats = NewStats]
    /\ UNCHANGED <<engineVars, arbVars, dlmmVars, cpmmVars, swapVars, search, rpc>>

NextManager == ProcessPool \/ ResetStats

SpecManager == InitManager /\ [][NextManager]_vars

StatsBalanced ==
    manager # <<>> =>
        manager.stats.totalProcessed = manager.stats.validPools + manager.stats.invalidPools

\* a step that is a processPool call adds one to totalProcessed and one to
\* exactly one of validPools and invalidPools
CountsOnce ==
    (manager # <<>> /\ manager'.calls = manager.calls + 1) =>
        /\ manager'.stats.totalProcessed = manager.stats.totalProcessed + 1
        /\ \/ /\ manager'.stats.validPools = manager.stats.validPools + 1
              /\ manager'.stats.invalidPools = manager.stats.invalidPools
           \/ /\ manager'.stats.validPools = manager.stats.validPools
              /\ manager'.stats.invalidPools = manager.stats.invalidPools + 1

ValidOnlyIfComplete ==
    (manager # <<>> /\ manager.result # <<>> /\ manager.result.valid) =>
        /\ manager.rawPool.object
        /\ Base58Shaped(manager.rawPool.poolAddress)
        /\ ToBoolean(manager.rawPool.baseMint) /\ ToBoolean(manager.rawPool.quoteMint)
        /\ manager.strict =>
              /\ manager.result.pool.xReserve # Undefined
              /\ manager.result.pool.yReserve # Undefined
              /\ \E v \in {manager.rawPool.xReserve, manager.rawPool.raw_reserve_x_amount} :
                    parseAtomic(v) = manager.result.pool.xReserve
              /\ \E v \in {manager.rawPool.yReserve, manager.rawPool.raw_reserve_y_amount} :
                    parseAtomic(v) = manager.result.pool.yReserve

\* C29: after any sequence of processPool and resetStats calls,
\* stats.totalProcessed = stats.validPools + stats.invalidPools; each
\* processPool call increases totalProcessed by exactly one and exactly one of
\* validPools and invalidPools by one, and a result has valid = true only if
\* the pool address is base58-shaped and both mints are present (and, in
\* strict mode, both reserve amounts parsed).
C29_StatsBalance ==
    /\ StatsBalanced
    /\ [][StatsBalanced' /\ ValidOnlyIfComplete' /\ CountsOnce]_vars

\* a strict manager that, after a reset, holds one valid and one invalid pool,
\* the valid one with its x reserve taken from raw.reserve_x_amount
C29_Witness ==
    /\ manager # <<>>
    /\ manager.strict
    /\ manager.calls = 3
    /\ manager.stats.totalProcessed = 2
    /\ manager.stats.validPools = 1
    /\ manager.stats.invalidPools = 1
    /\ manager.stats.normalizedReservesFromRaw = 1
    /\ manager.result # <<>> /\ manager.result.valid

====
